---------------------------- MODULE Spec2Model ----------------------------
(***************************************************************************)
(* Provider data validation: the confidence aggregation, the discrepancy   *)
(* resolver, the decision rules and the orchestrated pipeline.             *)
(*                                                                         *)
(* Numbers.  The program computes with Python floats.  The model computes  *)
(* with exact rationals: an overall confidence is a record [n, d] standing *)
(* for n/d with d > 0, and it is compared by cross-multiplication.  Source *)
(* weights and freshness factors are kept as integers scaled by 100        *)
(* (0.35 is 35, 1.05 is 105).  Per-discrepancy and per-source raw          *)
(* confidences are drawn from integers.                                    *)
(***************************************************************************)
EXTENDS Integers, Sequences, FiniteSets, TLC

VARIABLES
    args,           \* pure-function specifications: the arguments of the call
    ret,            \* pure-function specifications: the value returned
    pcFn,           \* "idle" | "call" | "return", or a position in validate_batch
    batch_start,    \* validate_batch: the loop variable batch_start
    begun,          \* tasks of the running gather that have started
    done,           \* tasks of the running gather that have finished
    in_flight,      \* records whose source queries are in progress
    batch_results,  \* what the tasks of the running gather returned, by task
    all_results,    \* validate_batch: the local dict all_results
    finished,       \* history: the finished tasks of the gather, in order
    stop_requested, \* the caller has asked the run to stop
    stats,          \* quality_assurance_agent.stats
    assessed,       \* history: the results assessed since the last reset
    calls,          \* the position of each concurrent run_full_validation call
    pc,             \* run_full_validation: the position of the call
    config,         \* orchestrator.config: enable_enrichment, auto_export_results
    has_callback,   \* whether a progress_callback was passed
    is_running,     \* orchestrator.is_running
    current_stage,  \* orchestrator.current_stage
    progress,       \* orchestrator.progress
    last_run_results, \* orchestrator.last_run_results
    results,        \* the local dict results of run_full_validation
    source_validations, \* the local source_validations of run_full_validation
    loop,           \* the running stage's loop: its index and its partial dict
    propagating,    \* an exception is leaving run_full_validation
    escaped_from,   \* history: the stage an exception escaped from ("None": none)
    escaped_by,     \* history: what raised it
    started,        \* history: the stages started, in order
    completed       \* history: the output of each stage that completed

batchVars == <<batch_start, begun, done, in_flight, batch_results, all_results,
               finished, stop_requested>>
agentVars == <<stats, assessed, calls>>
fnVars == <<args, ret, pcFn, batchVars, agentVars>>
runVars == <<pc, config, has_callback, is_running, current_stage, progress,
             last_run_results, results, source_validations, loop, propagating,
             escaped_from, escaped_by, started, completed>>
vars == <<fnVars, runVars>>

-----------------------------------------------------------------------------
(* Bounds of the model *)

MaxDiscs == 2       \* longest discrepancy list handed to the decision rules
MaxDups == 3        \* longest discrepancy list handed to the resolver
MaxOutcomes == 2    \* longest list of source outcomes handed to the aggregator
NumProviders == 2   \* number of providers handed to run_full_validation
MaxRecords == 101   \* longest provider list handed to validate_batch
GatherRecords == 2  \* longest provider list whose tasks are followed one by one
MaxResults == 3     \* longest provider list handed to the directory agent
MaxAssessed == 3    \* most assessments between two resets of the statistics
NumCalls == 2       \* concurrent calls of run_full_validation on the singleton

SeqUpTo(S, n) == UNION {[1..k -> S] : k \in 0..n}

-----------------------------------------------------------------------------
(* Rationals *)

(* Kept in lowest terms, the denominator positive. *)
Abs(x) == IF x < 0 THEN 0 - x ELSE x
RECURSIVE GCD(_, _)
GCD(a, b) == IF b = 0 THEN a ELSE GCD(b, a % b)
Rat(n, d) == LET g == GCD(Abs(n), d) IN [n |-> n \div g, d |-> d \div g]
RatLT(a, b) == a.n * b.d < b.n * a.d
RatGE(a, b) == ~RatLT(a, b)
RatEq(a, b) == a.n * b.d = b.n * a.d
RatInt(k) == Rat(k, 1)
RatMin(a, b) == IF RatLT(b, a) THEN b ELSE a
RatMax(a, b) == IF RatLT(a, b) THEN b ELSE a
RatAdd(a, b) == Rat(a.n * b.d + b.n * a.d, a.d * b.d)
RatSub(a, b) == Rat(a.n * b.d - b.n * a.d, a.d * b.d)
RatDivInt(a, k) == Rat(a.n, a.d * k)

-----------------------------------------------------------------------------
(* models/data_models.py *)

ValidationStatus == {"pending", "validated", "needs_review", "urgent", "error"}

DiscrepancyType ==
    {"phone_mismatch", "address_mismatch", "name_mismatch", "specialty_mismatch",
     "license_issue", "npi_invalid", "status_change", "email_invalid",
     "fax_mismatch", "website_issue", "hours_mismatch"}

Priority == {"high", "medium", "low"}

DataSource ==
    {"npi_registry", "google_places", "practice_website", "state_license",
     "pdf_document"}

(* A string is a sequence of tokens: words and the separator "_".  The value *)
(* of a DiscrepancyType is its name split at the underscore.                *)
TypeValue(t) ==
    CASE t = "phone_mismatch"     -> <<"phone", "_", "mismatch">>
      [] t = "address_mismatch"   -> <<"address", "_", "mismatch">>
      [] t = "name_mismatch"      -> <<"name", "_", "mismatch">>
      [] t = "specialty_mismatch" -> <<"specialty", "_", "mismatch">>
      [] t = "license_issue"      -> <<"license", "_", "issue">>
      [] t = "npi_invalid"        -> <<"npi", "_", "invalid">>
      [] t = "status_change"      -> <<"status", "_", "change">>
      [] t = "email_invalid"      -> <<"email", "_", "invalid">>
      [] t = "fax_mismatch"       -> <<"fax", "_", "mismatch">>
      [] t = "website_issue"      -> <<"website", "_", "issue">>
      [] t = "hours_mismatch"     -> <<"hours", "_", "mismatch">>

(* Discrepancy: the fields the pipeline reads. *)
Discrepancy(f, t, p, c, s) ==
    [field_name |-> f, type |-> t, priority |-> p, confidence |-> c, source |-> s]

(* SourceValidation: timestamp is kept as the age in hours at the time of   *)
(* scoring (datetime.now() - timestamp).                                    *)
SourceValidation(s, ok, c, ds, age) ==
    [source |-> s, success |-> ok, confidence |-> c, discrepancies |-> ds,
     age |-> age, error_message |-> [none |-> TRUE]]

-----------------------------------------------------------------------------
(* config.py *)

CONFIDENCE_THRESHOLDS == [auto_update |-> 80, needs_review |-> 60, urgent |-> 0]

SOURCE_WEIGHTS ==
    [npi_registry |-> 35, google_places |-> 25, practice_website |-> 20,
     state_license |-> 15, pdf_document |-> 5]

-----------------------------------------------------------------------------
(* services/confidence_calculator.py *)

calculate_freshness_factor_inclusive(age) ==
    IF age <= 24 THEN 105
    ELSE IF age <= 7 * 24 THEN 102
    ELSE IF age <= 30 * 24 THEN 100
    ELSE IF age <= 90 * 24 THEN 95
    ELSE 90

calculate_freshness_factor(age) ==
    IF age < 24 THEN 105
    ELSE IF age < 7 * 24 THEN 102
    ELSE IF age < 30 * 24 THEN 100
    ELSE IF age < 90 * 24 THEN 95
    ELSE 90

source_weight(source) ==
    IF source \in DOMAIN SOURCE_WEIGHTS THEN SOURCE_WEIGHTS[source] ELSE 10

(* The loop of calculate_overall_confidence over validations[i..]:   *)
(* acc.wc is weighted_confidence scaled by 10000, acc.tw is total_weight    *)
(* scaled by 100.                                                           *)
RECURSIVE confidence_loop(_, _, _)
confidence_loop(vals, i, acc) ==
    IF i > Len(vals) THEN acc
    ELSE LET validation == vals[i]
             weight == source_weight(validation.source)
         IN  IF validation.success
             THEN LET freshness == calculate_freshness_factor(validation.age)
                      adjusted_confidence == validation.confidence * freshness
                  IN  confidence_loop(vals, i + 1,
                          [wc |-> acc.wc + weight * adjusted_confidence,
                           tw |-> acc.tw + weight])
             ELSE confidence_loop(vals, i + 1,
                          [wc |-> acc.wc - weight * 10 * 100, tw |-> acc.tw])

calculate_overall_confidence_noclamp(validations) ==
    IF validations = <<>> THEN RatInt(0)
    ELSE LET acc == confidence_loop(validations, 1, [wc |-> 0, tw |-> 0])
         IN  IF acc.tw = 0 THEN RatInt(0)
             ELSE Rat(acc.wc, acc.tw * 100)

RECURSIVE confidence_loop_counting_failures(_, _, _)
confidence_loop_counting_failures(vals, i, acc) ==
    IF i > Len(vals) THEN acc
    ELSE LET validation == vals[i]
             weight == source_weight(validation.source)
         IN  IF validation.success
             THEN confidence_loop_counting_failures(vals, i + 1,
                      [wc |-> acc.wc + weight * validation.confidence
                                        * calculate_freshness_factor(validation.age),
                       tw |-> acc.tw + weight])
             ELSE confidence_loop_counting_failures(vals, i + 1,
                      [wc |-> acc.wc - weight * 10 * 100, tw |-> acc.tw + weight])

calculate_overall_confidence_counting_failures(validations) ==
    IF validations = <<>> THEN RatInt(0)
    ELSE LET acc == confidence_loop_counting_failures(validations, 1,
                                                      [wc |-> 0, tw |-> 0])
         IN  IF acc.tw = 0 THEN RatInt(0)
             ELSE RatMax(RatInt(0), RatMin(RatInt(100), Rat(acc.wc, acc.tw * 100)))

(* Every outcome scored as a success. *)
calculate_overall_confidence_ignoring_success(validations) ==
    IF validations = <<>> THEN RatInt(0)
    ELSE LET acc == confidence_loop(
                        [i \in 1..Len(validations) |->
                            [validations[i] EXCEPT !.success = TRUE]],
                        1, [wc |-> 0, tw |-> 0])
         IN  IF acc.tw = 0 THEN RatInt(0)
             ELSE RatMax(RatInt(0), RatMin(RatInt(100), Rat(acc.wc, acc.tw * 100)))

calculate_overall_confidence(validations) ==
    IF validations = <<>> THEN RatInt(0)
    ELSE LET acc == confidence_loop(validations, 1, [wc |-> 0, tw |-> 0])
         IN  IF acc.tw = 0 THEN RatInt(0)
             ELSE LET overall == Rat(acc.wc, acc.tw * 100)
                  IN  RatMax(RatInt(0), RatMin(RatInt(100), overall))

determine_validation_status_strict(confidence) ==
    IF RatLT(RatInt(CONFIDENCE_THRESHOLDS.auto_update), confidence) THEN "validated"
    ELSE IF RatLT(RatInt(CONFIDENCE_THRESHOLDS.needs_review), confidence)
         THEN "needs_review"
    ELSE "urgent"

determine_validation_status(confidence) ==
    IF RatGE(confidence, RatInt(CONFIDENCE_THRESHOLDS.auto_update)) THEN "validated"
    ELSE IF RatGE(confidence, RatInt(CONFIDENCE_THRESHOLDS.needs_review))
         THEN "needs_review"
    ELSE "urgent"

IsHigh(d) == d.priority = "high"
IsLowConfidence(d) == d.confidence < 75

should_auto_update_without_low_confidence(confidence, discrepancies) ==
    IF RatLT(confidence, RatInt(CONFIDENCE_THRESHOLDS.auto_update)) THEN FALSE
    ELSE IF SelectSeq(discrepancies, IsHigh) # <<>> THEN FALSE
    ELSE TRUE

should_auto_update(confidence, discrepancies) ==
    IF RatLT(confidence, RatInt(CONFIDENCE_THRESHOLDS.auto_update)) THEN FALSE
    ELSE LET high_priority == SelectSeq(discrepancies, IsHigh)
         IN  IF high_priority # <<>> THEN FALSE
             ELSE LET low_confidence_discs == SelectSeq(discrepancies, IsLowConfidence)
                  IN  IF low_confidence_discs # <<>> THEN FALSE
                      ELSE TRUE

critical_types == {"license_issue", "npi_invalid", "status_change"}

needs_urgent_review_more_than_two(confidence, discrepancies) ==
    IF RatLT(confidence, RatInt(CONFIDENCE_THRESHOLDS.needs_review)) THEN TRUE
    ELSE IF \E i \in 1..Len(discrepancies) : discrepancies[i].type \in critical_types
         THEN TRUE
    ELSE Len(SelectSeq(discrepancies, IsHigh)) > 2

needs_urgent_review(confidence, discrepancies) ==
    IF RatLT(confidence, RatInt(CONFIDENCE_THRESHOLDS.needs_review)) THEN TRUE
    ELSE IF \E i \in 1..Len(discrepancies) : discrepancies[i].type \in critical_types
         THEN TRUE
    ELSE LET high_priority == SelectSeq(discrepancies, IsHigh)
         IN  IF Len(high_priority) >= 2 THEN TRUE
             ELSE FALSE

(* calculate_validation_result, lines 310-312: the discrepancies of every   *)
(* outcome, concatenated.                                                   *)
RECURSIVE gather_all_discrepancies(_, _, _)
gather_all_discrepancies(validations, i, all_discrepancies) ==
    IF i > Len(validations) THEN all_discrepancies
    ELSE gather_all_discrepancies(validations, i + 1,
             all_discrepancies \o validations[i].discrepancies)

calculate_validation_result_strict_status(provider_id, validations) ==
    LET all_discrepancies == gather_all_discrepancies(validations, 1, <<>>)
        overall_confidence == calculate_overall_confidence(validations)
        auto_updated == should_auto_update(overall_confidence, all_discrepancies)
        urgent_review == needs_urgent_review(overall_confidence, all_discrepancies)
    IN  [provider_id |-> provider_id,
         status |-> determine_validation_status_strict(overall_confidence),
         overall_confidence |-> overall_confidence,
         source_validations |-> validations,
         discrepancies |-> all_discrepancies,
         total_discrepancies |-> Len(all_discrepancies),
         auto_updated |-> auto_updated,
         needs_review |-> ~auto_updated /\ ~urgent_review,
         urgent_review |-> urgent_review]

calculate_validation_result(provider_id, validations) ==
    LET all_discrepancies == gather_all_discrepancies(validations, 1, <<>>)
        overall_confidence == calculate_overall_confidence(validations)
        status == determine_validation_status(overall_confidence)
        auto_updated == should_auto_update(overall_confidence, all_discrepancies)
        urgent_review == needs_urgent_review(overall_confidence, all_discrepancies)
        needs_review == ~auto_updated /\ ~urgent_review
    IN  [provider_id |-> provider_id,
         status |-> status,
         overall_confidence |-> overall_confidence,
         source_validations |-> validations,
         discrepancies |-> all_discrepancies,
         total_discrepancies |-> Len(all_discrepancies),
         auto_updated |-> auto_updated,
         needs_review |-> needs_review,
         urgent_review |-> urgent_review]

-----------------------------------------------------------------------------
(* agents/quality_assurance_agent.py *)

(* key = f"{disc.field_name}_{disc.type.value}" *)
dedup_key_field_only(disc) == disc.field_name

dedup_key(disc) == disc.field_name \o <<"_">> \o TypeValue(disc.type)

(* The dict deduped, in insertion order, as the sequence of its values: the *)
(* key of an entry is dedup_key of its value.  Assigning to an existing key *)
(* keeps the entry's position.                                              *)
RECURSIVE dedup_loop_keep_last(_, _, _)
dedup_loop_keep_last(discrepancies, i, deduped) ==
    IF i > Len(discrepancies) THEN deduped
    ELSE LET disc == discrepancies[i]
             at == {j \in 1..Len(deduped) : dedup_key(deduped[j]) = dedup_key(disc)}
         IN  IF at = {}
             THEN dedup_loop_keep_last(discrepancies, i + 1, Append(deduped, disc))
             ELSE LET j == CHOOSE j \in at : TRUE
                  IN  IF disc.confidence >= deduped[j].confidence
                      THEN dedup_loop_keep_last(discrepancies, i + 1,
                                                [deduped EXCEPT ![j] = disc])
                      ELSE dedup_loop_keep_last(discrepancies, i + 1, deduped)

RECURSIVE dedup_loop(_, _, _)
dedup_loop(discrepancies, i, deduped) ==
    IF i > Len(discrepancies) THEN deduped
    ELSE LET disc == discrepancies[i]
             at == {j \in 1..Len(deduped) : dedup_key(deduped[j]) = dedup_key(disc)}
         IN  IF at = {}
             THEN dedup_loop(discrepancies, i + 1, Append(deduped, disc))
             ELSE LET j == CHOOSE j \in at : TRUE
                  IN  IF disc.confidence > deduped[j].confidence
                      THEN dedup_loop(discrepancies, i + 1, [deduped EXCEPT ![j] = disc])
                      ELSE dedup_loop(discrepancies, i + 1, deduped)

priority_order == [high |-> 0, medium |-> 1, low |-> 2]

(* key=lambda d: (priority_order[d.priority], -d.confidence), compared as   *)
(* Python compares tuples.                                                  *)
sort_key(d) == <<priority_order[d.priority], 0 - d.confidence>>
KeyLess(a, b) == a[1] < b[1] \/ (a[1] = b[1] /\ a[2] < b[2])

(* sorted() is stable: an element goes after every element already placed   *)
(* whose key is not greater than its own.                                   *)
RECURSIVE sorted_insert_before_equal(_, _)
sorted_insert_before_equal(placed, d) ==
    IF placed = <<>> THEN <<d>>
    ELSE IF ~KeyLess(sort_key(Head(placed)), sort_key(d))
         THEN <<d>> \o placed
         ELSE <<Head(placed)>> \o sorted_insert_before_equal(Tail(placed), d)

RECURSIVE sorted_insert(_, _)
sorted_insert(placed, d) ==
    IF placed = <<>> THEN <<d>>
    ELSE IF KeyLess(sort_key(d), sort_key(Head(placed)))
         THEN <<d>> \o placed
         ELSE <<Head(placed)>> \o sorted_insert(Tail(placed), d)

RECURSIVE sorted(_, _, _)
sorted(values, i, placed) ==
    IF i > Len(values) THEN placed
    ELSE sorted(values, i + 1, sorted_insert(placed, values[i]))

prioritize_discrepancies(discrepancies) ==
    LET deduped == dedup_loop(discrepancies, 1, <<>>)
        sorted_discs == sorted(deduped, 1, <<>>)
    IN  sorted_discs

RECURSIVE extend_all(_, _, _)
extend_all(validations, i, all_discrepancies) ==
    IF i > Len(validations) THEN all_discrepancies
    ELSE extend_all(validations, i + 1,
                    all_discrepancies \o validations[i].discrepancies)

(* The three flags of assess_provider (lines 84-91). *)
decide(overall_confidence, prioritized_discrepancies) ==
    LET auto == should_auto_update(overall_confidence, prioritized_discrepancies)
        needs_urgent == needs_urgent_review(overall_confidence,
                                            prioritized_discrepancies)
    IN  [auto_updated |-> auto,
         urgent_review |-> needs_urgent,
         needs_review |-> ~auto /\ ~needs_urgent]

(* assess_provider: validations is list(source_validations.values()). *)
assess_provider(provider_id, validations) ==
    LET overall_confidence == calculate_overall_confidence(validations)
        all_discrepancies == extend_all(validations, 1, <<>>)
        prioritized_discrepancies == prioritize_discrepancies(all_discrepancies)
        status == determine_validation_status(overall_confidence)
        flags == decide(overall_confidence, prioritized_discrepancies)
    IN  [provider_id |-> provider_id,
         status |-> status,
         overall_confidence |-> overall_confidence,
         source_validations |-> validations,
         discrepancies |-> prioritized_discrepancies,
         total_discrepancies |-> Len(prioritized_discrepancies),
         auto_updated |-> flags.auto_updated,
         needs_review |-> flags.needs_review,
         urgent_review |-> flags.urgent_review]

(* __init__, lines 41-48, and reset_stats, lines 373-382. *)
reset_stats ==
    [providers_assessed |-> 0,
     auto_approved |-> 0,
     flagged_for_review |-> 0,
     flagged_urgent |-> 0,
     average_confidence |-> RatInt(0),
     total_discrepancies |-> 0]

update_stats_urgent_first(self_stats, confidence, discrepancies, auto_updated, needs_review, urgent_review) ==
    LET n == self_stats.providers_assessed + 1
        prev_avg == self_stats.average_confidence
    IN  [providers_assessed |-> n,
         total_discrepancies |-> self_stats.total_discrepancies + Len(discrepancies),
         auto_approved |-> self_stats.auto_approved
                           + (IF ~urgent_review /\ auto_updated THEN 1 ELSE 0),
         flagged_urgent |-> self_stats.flagged_urgent
                            + (IF urgent_review THEN 1 ELSE 0),
         flagged_for_review |-> self_stats.flagged_for_review
                                + (IF ~urgent_review /\ ~auto_updated THEN 1 ELSE 0),
         average_confidence |->
             RatAdd(prev_avg, RatDivInt(RatSub(confidence, prev_avg), n))]

(* _update_stats, lines 212-234: if auto_updated / elif urgent_review /     *)
(* else.                                                                    *)
update_stats(self_stats, confidence, discrepancies, auto_updated, needs_review, urgent_review) ==
    LET n == self_stats.providers_assessed + 1
        prev_avg == self_stats.average_confidence
    IN  [providers_assessed |-> n,
         total_discrepancies |-> self_stats.total_discrepancies + Len(discrepancies),
         auto_approved |-> self_stats.auto_approved
                           + (IF auto_updated THEN 1 ELSE 0),
         flagged_urgent |-> self_stats.flagged_urgent
                            + (IF ~auto_updated /\ urgent_review THEN 1 ELSE 0),
         flagged_for_review |-> self_stats.flagged_for_review
                                + (IF ~auto_updated /\ ~urgent_review THEN 1 ELSE 0),
         average_confidence |->
             RatAdd(prev_avg, RatDivInt(RatSub(confidence, prev_avg), n))]

(* assess_provider, lines 102-104: the statistics after the result has been *)
(* counted.                                                                 *)
stats_after(self_stats, result) ==
    update_stats(self_stats, result.overall_confidence, result.discrepancies,
                 result.auto_updated, result.needs_review, result.urgent_review)

RECURSIVE stats_after_each(_, _, _)
stats_after_each(self_stats, assessments, i) ==
    IF i > Len(assessments) THEN self_stats
    ELSE stats_after_each(stats_after(self_stats, assessments[i]), assessments, i + 1)

(* What the history keeps of a result. *)
AssessedEntry(result) ==
    [auto_updated |-> result.auto_updated,
     urgent_review |-> result.urgent_review,
     total_discrepancies |-> result.total_discrepancies]

AssessedEntries(assessments) ==
    [i \in 1..Len(assessments) |-> AssessedEntry(assessments[i])]

(* The agents' singletons as constructed, and no call of the orchestrator   *)
(* under way.                                                               *)
AgentIdle ==
    /\ stats = reset_stats
    /\ assessed = <<>>
    /\ calls = <<>>

-----------------------------------------------------------------------------
(* Python values *)

None == [none |-> TRUE]

(* A dict keeps its keys in insertion order; assigning to a key it holds    *)
(* keeps the key's place.                                                   *)
EmptyDict == [keys |-> <<>>, val |-> <<>>]
DictHas(d, k) == k \in DOMAIN d.val
DictSet(d, k, v) ==
    IF DictHas(d, k) THEN [d EXCEPT !.val[k] = v]
    ELSE [keys |-> Append(d.keys, k), val |-> (k :> v) @@ d.val]
DictGet(d, k, default) == IF DictHas(d, k) THEN d.val[k] ELSE default
DictValues(d) == [i \in 1..Len(d.keys) |-> d.val[d.keys[i]]]

Min(a, b) == IF a < b THEN a ELSE b

-----------------------------------------------------------------------------
(* agents/data_validation_agent.py *)

BATCH_SIZE == 50

(* The providers of the run: provider i has id i. *)
providers == [i \in 1..NumProviders |-> i]

(* asyncio.gather(..., return_exceptions=True) hands back the exception.    *)
Raised == [exception |-> TRUE]

(* The variables of validate_batch while no call of it is in progress. *)
BatchIdle ==
    /\ batch_start = 0
    /\ begun = 0
    /\ done = 0
    /\ in_flight = 0
    /\ batch_results = <<>>
    /\ all_results = [keys |-> <<>>, val |-> <<>>]
    /\ finished = <<>>
    /\ stop_requested = FALSE

(* What validate_provider returns for a provider: a dict from the source    *)
(* name to the source's SourceValidation, the three default sources in      *)
(* order.  The source adapters are not modelled: these are outcomes they    *)
(* can produce.                                                             *)
SourceDict(npi, google, website) ==
    DictSet(DictSet(DictSet(EmptyDict, "npi_registry", npi),
                    "google_places", google), "practice_website", website)

(* str(result) of an exception. *)
StrOf(exception) == [str |-> "exception"]

(* SourceValidation(source=..., success=False, confidence=0.0,               *)
(* error_message=str(result)): discrepancies keeps its default, the empty    *)
(* list.                                                                     *)
Failed(source) ==
    [SourceValidation(source, FALSE, 0, <<>>, 0) EXCEPT
        !.error_message = StrOf(Raised)]

OutcomeClean ==
    SourceDict(SourceValidation("npi_registry", TRUE, 100, <<>>, 0),
               SourceValidation("google_places", TRUE, 90, <<>>, 0),
               SourceValidation("practice_website", TRUE, 80, <<>>, 0))

OutcomeMismatch ==
    SourceDict(SourceValidation("npi_registry", TRUE, 70,
                   <<Discrepancy(<<"phone">>, "phone_mismatch", "medium", 90,
                                 "npi_registry")>>, 0),
               SourceValidation("google_places", TRUE, 85,
                   <<Discrepancy(<<"phone">>, "phone_mismatch", "medium", 85,
                                 "google_places")>>, 0),
               Failed("practice_website"))

OutcomeCritical ==
    SourceDict(SourceValidation("npi_registry", TRUE, 100,
                   <<Discrepancy(<<"npi", "_", "status">>, "license_issue", "high",
                                 100, "npi_registry")>>, 0),
               SourceValidation("google_places", TRUE, 90,
                   <<Discrepancy(<<"practice", "_", "status">>, "status_change",
                                 "high", 95, "google_places")>>, 0),
               SourceValidation("practice_website", TRUE, 80, <<>>, 0))

OutcomeAllFailed ==
    SourceDict(Failed("npi_registry"), Failed("google_places"),
               Failed("practice_website"))

ProviderOutcomes == {OutcomeClean, OutcomeMismatch, OutcomeCritical, OutcomeAllFailed}

(* validate_provider with the default sources, lines 68-73. *)
source_names == <<"npi_registry", "google_places", "practice_website">>

(* validate_provider, lines 97-108: validation_results is what gather       *)
(* handed back for the three source tasks, in the order of source_names.    *)
RECURSIVE validate_provider_dropping_failed_loop(_, _, _)
validate_provider_dropping_failed_loop(validation_results, i, converted) ==
    IF i > Len(validation_results) THEN converted
    ELSE validate_provider_dropping_failed_loop(validation_results, i + 1,
             IF validation_results[i] = Raised THEN converted
             ELSE DictSet(converted, source_names[i], validation_results[i]))

validate_provider_dropping_failed(validation_results) ==
    validate_provider_dropping_failed_loop(validation_results, 1, EmptyDict)

RECURSIVE validate_provider_loop(_, _, _)
validate_provider_loop(validation_results, i, converted) ==
    IF i > Len(validation_results) THEN converted
    ELSE LET result == validation_results[i]
             source_name == source_names[i]
         IN  validate_provider_loop(validation_results, i + 1,
                 DictSet(converted, source_name,
                         IF result = Raised THEN Failed(source_name) ELSE result))

validate_provider(validation_results) ==
    validate_provider_loop(validation_results, 1, EmptyDict)

(* The error entry stored for a record whose validate_provider raised. *)
ErrorEntry == DictSet(EmptyDict, "error", Failed("npi_registry"))

(* validate_batch, lines 152-164: the results of the batch, tasks i to      *)
(* batch_end, stored in the order of the tasks; ids is the list of the      *)
(* providers' ids, stored the dict built so far.  The loop assigns          *)
(* stored[ids[j]] for j = i, ..., batch_end: a key takes the entry of the   *)
(* last task that has it, and a new key is appended where it is first       *)
(* assigned.                                                                *)
NewKeys(ids, stored, i, batch_end) ==
    LET first == {j \in i..batch_end :
                     /\ ~DictHas(stored, ids[j])
                     /\ \A h \in i..(j - 1) : ids[h] # ids[j]}
    IN  [n \in 1..Cardinality(first) |->
            ids[CHOOSE j \in first : Cardinality({h \in first : h < j}) = n - 1]]

LastTask(ids, k, i, batch_end) ==
    CHOOSE j \in i..batch_end :
        ids[j] = k /\ \A h \in (j + 1)..batch_end : ids[h] # k

store_batch_results_skip_raised(ids, stored, results_of_batch, i, batch_end) ==
    LET kept == {j \in i..batch_end : results_of_batch[j] # Raised}
        assigned == {ids[j] : j \in kept}
        first == {j \in kept :
                     /\ ~DictHas(stored, ids[j])
                     /\ \A h \in kept : h < j => ids[h] # ids[j]}
    IN  [keys |-> stored.keys \o
                     [n \in 1..Cardinality(first) |->
                         ids[CHOOSE j \in first :
                                 Cardinality({h \in first : h < j}) = n - 1]],
         val |-> [k \in DOMAIN stored.val \cup assigned |->
                     IF k \in assigned
                     THEN results_of_batch[CHOOSE j \in kept :
                              ids[j] = k /\ \A h \in kept : h > j => ids[h] # k]
                     ELSE stored.val[k]]]

store_batch_results(ids, stored, results_of_batch, i, batch_end) ==
    LET assigned == {ids[j] : j \in i..batch_end}
        entry(j) == LET provider == ids[j]
                        result == results_of_batch[j]
                    IN  IF result = Raised THEN ErrorEntry ELSE result
    IN  [keys |-> stored.keys \o NewKeys(ids, stored, i, batch_end),
         val |-> [k \in DOMAIN stored.val \cup assigned |->
                     IF k \in assigned
                     THEN entry(LastTask(ids, k, i, batch_end))
                     ELSE stored.val[k]]]

(* quality_assurance_agent.py, assess_batch, lines 140-146: the results of   *)
(* assess_provider, one for each provider of the list, in order.            *)
assess_each(ids, validation_results) ==
    [i \in 1..Len(ids) |->
        assess_provider(ids[i],
            DictValues(DictGet(validation_results, ids[i], EmptyDict)))]

(* quality_assurance_agent.py, assess_batch, lines 137-148: the providers   *)
(* assessed one after the other, from provider i on.                        *)
RECURSIVE assess_batch(_, _, _, _)
assess_batch(ids, validation_results, i, assessments) ==
    IF i > Len(ids) THEN assessments
    ELSE LET provider == ids[i]
             outcomes == DictGet(validation_results, provider, EmptyDict)
             result == assess_provider(provider, DictValues(outcomes))
         IN  assess_batch(ids, validation_results, i + 1,
                          DictSet(assessments, provider, result))

-----------------------------------------------------------------------------
(* agents/information_enrichment_agent.py *)

batch_size == 20

RECURSIVE store_enrichments(_, _, _)
store_enrichments(all_enrichments, i, batch_end) ==
    IF i > batch_end THEN all_enrichments
    ELSE store_enrichments(DictSet(all_enrichments, providers[i], "enrichment"),
                           i + 1, batch_end)

-----------------------------------------------------------------------------
(* agents/directory_management_agent.py *)

(* process_validation_result: the types of the actions taken, in order,     *)
(* and what the helpers it awaits did: the providers _auto_update_provider  *)
(* updated, the priorities of the tickets _create_review_ticket created,    *)
(* the alerts _send_urgent_notification sent.                               *)
process_validation_result_urgent_first(result) ==
    IF result.urgent_review
    THEN [actions_taken |-> <<"urgent_ticket_created", "notification_sent">>,
          updates |-> 0, tickets |-> <<"high">>, notifications |-> 1]
    ELSE IF result.auto_updated
    THEN [actions_taken |-> <<"auto_update">>,
          updates |-> 1, tickets |-> <<>>, notifications |-> 0]
    ELSE [actions_taken |-> <<"review_ticket_created">>,
          updates |-> 0, tickets |-> <<"medium">>, notifications |-> 0]

process_validation_result(result) ==
    IF result.auto_updated
    THEN [actions_taken |-> <<"auto_update">>,
          updates |-> 1, tickets |-> <<>>, notifications |-> 0]
    ELSE IF result.urgent_review
    THEN [actions_taken |-> <<"urgent_ticket_created", "notification_sent">>,
          updates |-> 0, tickets |-> <<"high">>, notifications |-> 1]
    ELSE [actions_taken |-> <<"review_ticket_created">>,
          updates |-> 0, tickets |-> <<"medium">>, notifications |-> 0]

EmptySummary ==
    [total_processed |-> 0, auto_updated |-> 0, tickets_created |-> 0,
     urgent_notifications |-> 0, provider_actions |-> <<>>]

Count(seq, S) == Cardinality({k \in 1..Len(seq) : seq[k] \in S})

(* process_batch, lines 139-149: one provider's actions added to summary. *)
add_to_summary(summary, provider, actions_taken) ==
    [total_processed |-> summary.total_processed + 1,
     auto_updated |-> summary.auto_updated + Count(actions_taken, {"auto_update"}),
     tickets_created |-> summary.tickets_created
         + Count(actions_taken, {"urgent_ticket_created", "review_ticket_created"}),
     urgent_notifications |-> summary.urgent_notifications
         + Count(actions_taken, {"notification_sent"}),
     provider_actions |-> Append(summary.provider_actions,
         [provider_id |-> provider, actions_taken |-> actions_taken])]

(* process_batch, lines 136-149, from provider i on. *)
RECURSIVE process_batch(_, _, _, _)
process_batch(ids, validation_results, i, summary) ==
    IF i > Len(ids) THEN summary
    ELSE LET provider == ids[i]
         IN  process_batch(ids, validation_results, i + 1,
                 IF DictHas(validation_results, provider)
                 THEN add_to_summary(summary, provider,
                          process_validation_result(validation_results.val[provider])
                              .actions_taken)
                 ELSE summary)

generate_validation_report(provs, validation_results) ==
    LET total == Len(provs)
        values == DictValues(validation_results)
        auto_updated == Cardinality({k \in 1..Len(values) : values[k].auto_updated})
        needs_review == Cardinality({k \in 1..Len(values) : values[k].needs_review})
        urgent == Cardinality({k \in 1..Len(values) : values[k].urgent_review})
        errors == total - (auto_updated + needs_review + urgent)
    IN  [total_providers |-> total,
         validated |-> auto_updated + needs_review + urgent,
         auto_updated |-> auto_updated,
         needs_review |-> needs_review,
         urgent |-> urgent,
         errors |-> errors]

-----------------------------------------------------------------------------
(* agents/orchestrator.py: run_full_validation *)

(* What an invocation of the caller's progress callback can do: return      *)
(* (FALSE) or raise (TRUE).  Without a callback nothing is invoked.         *)
CallbackRaises == IF has_callback THEN BOOLEAN ELSE {FALSE}

NoEscape == [what |-> "None", provider |-> 0]

EmptyResults ==
    [providers |-> EmptyDict, validation_results |-> EmptyDict,
     enrichments |-> EmptyDict, actions |-> None, report |-> None,
     errors |-> <<>>, timing |-> {}, export_path |-> None]

EmptyLoop == [i |-> 0, dict |-> EmptyDict, summary |-> EmptySummary]

InitRun ==
    /\ pc = "idle"
    /\ config \in [enable_enrichment : BOOLEAN, auto_export_results : BOOLEAN]
    /\ has_callback \in BOOLEAN
    /\ is_running = FALSE
    /\ current_stage = "None"
    /\ progress = RatInt(0)
    /\ last_run_results = None
    /\ results = EmptyResults
    /\ source_validations = None
    /\ loop = EmptyLoop
    /\ propagating = FALSE
    /\ escaped_from = "None"
    /\ escaped_by = NoEscape
    /\ started = <<>>
    /\ completed = <<>>

(* The progress functions handed to the agents (lines 101-104, 120-123,     *)
(* 139-142, 158-161): the percentage reported for `current` of `total`.     *)
validation_progress(current, total) == Rat(current * 25, total)
enrichment_progress(current, total) == Rat(25 * total + current * 25, total)
qa_progress(current, total) == Rat(50 * total + current * 25, total)
directory_progress_quarter(current, total) == Rat(75 * total + current * 25, total)
directory_progress(current, total) == Rat(75 * total + current * 20, total)

(* An exception leaves the try block from `stage`. *)
Escape(stage, what, provider) ==
    /\ pc' = "except"
    /\ escaped_from' = stage
    /\ escaped_by' = [what |-> what, provider |-> provider]

NoEscapeNow == UNCHANGED <<escaped_from, escaped_by>>

(* Lines 78-91. *)
Start ==
    /\ pc = "idle"
    /\ is_running' = TRUE
    /\ results' = EmptyResults
    /\ pc' = "begin_data_validation"
    /\ UNCHANGED <<fnVars, config, has_callback, current_stage, progress, last_run_results,
                   source_validations, loop, propagating, escaped_from, escaped_by,
                   started, completed>>

(* The head of a stage: current_stage is set and the stage's first progress *)
(* is reported (lines 95-97, 114-116, 133-135, 152-154, 171-173).           *)
BeginStage(stage, pct, next) ==
    /\ current_stage' = stage
    /\ started' = Append(started, stage)
    /\ progress' = RatInt(pct)
    /\ loop' = EmptyLoop
    /\ \E raises \in CallbackRaises :
          IF raises THEN Escape(stage, "callback", 0)
          ELSE pc' = next /\ NoEscapeNow
    /\ UNCHANGED <<fnVars, config, has_callback, is_running, last_run_results, results,
                   source_validations, propagating, completed>>

BeginDataValidation ==
    /\ pc = "begin_data_validation"
    /\ BeginStage("data_validation", 0, "validate_batch")

(* validate_batch, one batch (lines 143-172), and on its last batch lines   *)
(* 106-113 of run_full_validation.                                          *)
ValidateBatch ==
    /\ pc = "validate_batch"
    /\ LET total == Len(providers)
           start == loop.i
           batch_end == Min(start + BATCH_SIZE, total)
       IN  \E results_of_batch \in [(start + 1)..batch_end ->
                                        ProviderOutcomes \cup {Raised}] :
           \E raises \in CallbackRaises :
              LET stored == store_batch_results(providers, loop.dict, results_of_batch,
                                                start + 1, batch_end)
              IN  /\ progress' = validation_progress(batch_end, total)
                  /\ IF raises
                     THEN /\ Escape("data_validation", "callback", 0)
                          /\ UNCHANGED <<loop, source_validations, results, completed>>
                     ELSE IF batch_end < total
                     THEN /\ loop' = [loop EXCEPT !.i = batch_end, !.dict = stored]
                          /\ UNCHANGED <<pc, source_validations, results, completed>>
                          /\ NoEscapeNow
                     ELSE /\ source_validations' = stored
                          /\ results' = [results EXCEPT
                                 !.timing = @ \cup {"data_validation"}]
                          /\ completed' = ("data_validation" :> stored) @@ completed
                          /\ pc' = IF config.enable_enrichment
                                   THEN "begin_enrichment"
                                   ELSE "begin_quality_assessment"
                          /\ UNCHANGED loop
                          /\ NoEscapeNow
    /\ UNCHANGED <<fnVars, config, has_callback, is_running, current_stage,
                   last_run_results, propagating, started>>

BeginEnrichment ==
    /\ pc = "begin_enrichment"
    /\ BeginStage("enrichment", 25, "enrich_batch")

(* enrich_batch, one batch (lines 167-176), and on its last batch lines     *)
(* 125-130 of run_full_validation.  gather() is called without              *)
(* return_exceptions: an enrich_provider that raises ends the stage.        *)
EnrichBatch ==
    /\ pc = "enrich_batch"
    /\ LET total == Len(providers)
           i == loop.i
           batch_end == Min(i + batch_size, total)
       IN  \E gather_raises \in BOOLEAN : \E raises \in CallbackRaises :
              LET all_enrichments == store_enrichments(loop.dict, i + 1, batch_end)
              IN  IF gather_raises
                  THEN /\ Escape("enrichment", "enrich_provider", i + 1)
                       /\ UNCHANGED <<progress, loop, results, completed>>
                  ELSE /\ progress' = enrichment_progress(batch_end, total)
                       /\ IF raises
                          THEN /\ Escape("enrichment", "callback", 0)
                               /\ UNCHANGED <<loop, results, completed>>
                          ELSE IF batch_end < total
                          THEN /\ loop' = [loop EXCEPT !.i = batch_end,
                                                       !.dict = all_enrichments]
                               /\ UNCHANGED <<pc, results, completed>>
                               /\ NoEscapeNow
                          ELSE /\ results' = [results EXCEPT
                                      !.enrichments = all_enrichments,
                                      !.timing = @ \cup {"enrichment"}]
                               /\ completed' = ("enrichment" :> all_enrichments)
                                               @@ completed
                               /\ pc' = "begin_quality_assessment"
                               /\ UNCHANGED loop
                               /\ NoEscapeNow
    /\ UNCHANGED <<fnVars, config, has_callback, is_running, current_stage,
                   last_run_results, source_validations, propagating, started>>

BeginQualityAssessment ==
    /\ pc = "begin_quality_assessment"
    /\ BeginStage("quality_assessment", 50, "assess_batch")

(* assess_batch, one provider (lines 140-146), and after the last one lines *)
(* 144-149 of run_full_validation.  assess_provider is awaited with no      *)
(* handler around it.                                                       *)
AssessNext ==
    /\ pc = "assess_batch"
    /\ LET total == Len(providers)
           i == loop.i
           provider == providers[i + 1]
           outcomes == DictGet(source_validations, provider, EmptyDict)
           result == assess_provider(provider, DictValues(outcomes))
           assessments == DictSet(loop.dict, provider, result)
       IN  \E assess_raises \in BOOLEAN : \E raises \in CallbackRaises :
              IF assess_raises
              THEN /\ Escape("quality_assessment", "assess_provider", provider)
                   /\ UNCHANGED <<progress, loop, results, completed, stats,
                                  assessed>>
              ELSE /\ stats' = stats_after(stats, result)
                   /\ assessed' = Append(assessed, AssessedEntry(result))
                   /\ progress' = qa_progress(i + 1, total)
                   /\ IF raises
                      THEN /\ Escape("quality_assessment", "callback", 0)
                           /\ UNCHANGED <<loop, results, completed>>
                      ELSE IF i + 1 < total
                      THEN /\ loop' = [loop EXCEPT !.i = i + 1, !.dict = assessments]
                           /\ UNCHANGED <<pc, results, completed>>
                           /\ NoEscapeNow
                      ELSE /\ results' = [results EXCEPT
                                  !.validation_results = assessments,
                                  !.timing = @ \cup {"quality_assessment"}]
                           /\ completed' = ("quality_assessment" :> assessments)
                                           @@ completed
                           /\ pc' = "begin_directory_management"
                           /\ UNCHANGED loop
                           /\ NoEscapeNow
    /\ UNCHANGED <<args, ret, pcFn, batchVars, calls, config, has_callback,
                   is_running, current_stage, last_run_results,
                   source_validations, propagating, started>>

BeginReportingEarly ==
    /\ pc = "begin_directory_management"
    /\ BeginStage("reporting", 95, "generate_report")

BeginDirectoryManagement ==
    /\ pc = "begin_directory_management"
    /\ BeginStage("directory_management", 75, "process_batch")

(* process_batch, one provider (lines 136-152), and after the last one      *)
(* lines 163-168 of run_full_validation.                                    *)
ProcessNext ==
    /\ pc = "process_batch"
    /\ LET total == Len(providers)
           i == loop.i
           provider == providers[i + 1]
           validation_results == results.validation_results
           summary ==
               IF DictHas(validation_results, provider)
               THEN add_to_summary(loop.summary, provider,
                        process_validation_result(validation_results.val[provider])
                            .actions_taken)
               ELSE loop.summary
       IN  \E process_raises \in BOOLEAN : \E raises \in CallbackRaises :
              IF process_raises
              THEN /\ Escape("directory_management", "process_validation_result",
                             provider)
                   /\ UNCHANGED <<progress, loop, results, completed>>
              ELSE /\ progress' = directory_progress(i + 1, total)
                   /\ IF raises
                      THEN /\ Escape("directory_management", "callback", 0)
                           /\ UNCHANGED <<loop, results, completed>>
                      ELSE IF i + 1 < total
                      THEN /\ loop' = [loop EXCEPT !.i = i + 1, !.summary = summary]
                           /\ UNCHANGED <<pc, results, completed>>
                           /\ NoEscapeNow
                      ELSE /\ results' = [results EXCEPT
                                  !.actions = summary,
                                  !.timing = @ \cup {"directory_management"}]
                           /\ completed' = ("directory_management" :> summary)
                                           @@ completed
                           /\ pc' = "begin_reporting"
                           /\ UNCHANGED loop
                           /\ NoEscapeNow
    /\ UNCHANGED <<fnVars, config, has_callback, is_running, current_stage,
                   last_run_results, source_validations, propagating, started>>

BeginReporting ==
    /\ pc = "begin_reporting"
    /\ BeginStage("reporting", 95, "generate_report")

(* Lines 177-183. *)
GenerateReport ==
    /\ pc = "generate_report"
    /\ LET report == generate_validation_report(providers, results.validation_results)
       IN  /\ results' = [results EXCEPT !.report = report,
                                         !.timing = @ \cup {"reporting"}]
           /\ completed' = ("reporting" :> report) @@ completed
    /\ pc' = IF config.auto_export_results THEN "export_results" ELSE "finalize"
    /\ UNCHANGED <<fnVars, config, has_callback, is_running, current_stage, progress,
                   last_run_results, source_validations, loop, propagating,
                   escaped_from, escaped_by, started>>

(* Lines 186-190: export_results writes a file and may fail. *)
ExportResults ==
    /\ pc = "export_results"
    /\ \E export_raises \in BOOLEAN :
          IF export_raises
          THEN /\ Escape("reporting", "export_results", 0)
               /\ UNCHANGED results
          ELSE /\ results' = [results EXCEPT !.export_path = "export_path"]
               /\ pc' = "finalize"
               /\ NoEscapeNow
    /\ UNCHANGED <<fnVars, config, has_callback, is_running, current_stage, progress,
                   last_run_results, source_validations, loop, propagating,
                   started, completed>>

(* Lines 193-202. *)
Finalize ==
    /\ pc = "finalize"
    /\ progress' = RatInt(100)
    /\ LET stored == [keys |-> providers, val |-> [id \in 1..NumProviders |-> id]]
       IN  \E raises \in CallbackRaises :
              IF raises
              THEN /\ results' = [results EXCEPT !.providers = stored]
                   /\ Escape("reporting", "callback", 0)
                   /\ UNCHANGED last_run_results
              ELSE /\ results' = [results EXCEPT !.providers = stored,
                                                 !.timing = @ \cup {"total"}]
                   /\ last_run_results' = results'
                   /\ pc' = "finally"
                   /\ NoEscapeNow
    /\ UNCHANGED <<fnVars, config, has_callback, is_running, current_stage,
                   source_validations, loop, propagating, started, completed>>

(* Lines 204-211: the handler records the error and reports it through     *)
(* the same callback, with no handler around that call.                     *)
Except ==
    /\ pc = "except"
    /\ results' = [results EXCEPT !.errors = Append(@,
           [stage |-> current_stage, error |-> escaped_by.what, timestamp |-> TRUE])]
    /\ \E raises \in CallbackRaises : propagating' = raises
    /\ pc' = "finally"
    /\ UNCHANGED <<fnVars, config, has_callback, is_running, current_stage, progress,
                   last_run_results, source_validations, loop, escaped_from,
                   escaped_by, started, completed>>

(* Lines 213-217. *)
Finally ==
    /\ pc = "finally"
    /\ is_running' = FALSE
    /\ current_stage' = "None"
    /\ pc' = IF propagating THEN "raised" ELSE "returned"
    /\ UNCHANGED <<fnVars, config, has_callback, progress, last_run_results, results,
                   source_validations, loop, propagating, escaped_from, escaped_by,
                   started, completed>>

FnIdle == args = <<>> /\ ret = <<>> /\ pcFn = "idle" /\ BatchIdle /\ AgentIdle

Init == FnIdle /\ InitRun

Next ==
    \/ Start
    \/ BeginDataValidation
    \/ ValidateBatch
    \/ BeginEnrichment
    \/ EnrichBatch
    \/ BeginQualityAssessment
    \/ AssessNext
    \/ BeginDirectoryManagement
    \/ ProcessNext
    \/ BeginReporting
    \/ GenerateReport
    \/ ExportResults
    \/ Finalize
    \/ Except
    \/ Finally

Spec == Init /\ [][Next]_vars

(* The orchestrator at rest, for the specifications of the pure functions. *)
RunIdle ==
    /\ pc = "off"
    /\ config = [enable_enrichment |-> TRUE, auto_export_results |-> FALSE]
    /\ has_callback = FALSE
    /\ is_running = FALSE
    /\ current_stage = "None"
    /\ progress = RatInt(0)
    /\ last_run_results = None
    /\ results = EmptyResults
    /\ source_validations = None
    /\ loop = EmptyLoop
    /\ propagating = FALSE
    /\ escaped_from = "None"
    /\ escaped_by = NoEscape
    /\ started = <<>>
    /\ completed = <<>>

-----------------------------------------------------------------------------
(* The decision rules applied to every confidence and discrepancy list. *)

ConfValues ==
    {Rat(0, 1), Rat(599, 10), Rat(60, 1), Rat(79999, 1000), Rat(80, 1), Rat(100, 1)}

DecideDiscs ==
    {Discrepancy(<<"phone">>, t, p, c, "npi_registry") :
        t \in {"phone_mismatch", "license_issue", "npi_invalid", "status_change"},
        p \in Priority, c \in {74, 75}}

InitDecide ==
    /\ args \in [confidence : ConfValues,
                 discrepancies : SeqUpTo(DecideDiscs, MaxDiscs)]
    /\ ret = <<>>
    /\ pcFn = "call"
    /\ BatchIdle
    /\ AgentIdle
    /\ RunIdle

Decide ==
    /\ pcFn = "call"
    /\ ret' = [status |-> determine_validation_status(args.confidence)]
              @@ decide(args.confidence, args.discrepancies)
    /\ pcFn' = "return"
    /\ UNCHANGED <<args, batchVars, agentVars, runVars>>

SpecDecide == InitDecide /\ [][Decide]_vars

-----------------------------------------------------------------------------
(* The resolver applied to every discrepancy list. *)

ResolveDiscs ==
    {Discrepancy(f, t, p, c, "npi_registry") :
        f \in {<<"npi">>, <<"npi", "_", "status">>},
        t \in {"status_change", "license_issue"},
        p \in Priority, c \in {70, 90}}

InitResolve ==
    /\ args \in [discrepancies : SeqUpTo(ResolveDiscs, MaxDups)]
    /\ ret = <<>>
    /\ pcFn = "call"
    /\ BatchIdle
    /\ AgentIdle
    /\ RunIdle

Resolve ==
    /\ pcFn = "call"
    /\ ret' = prioritize_discrepancies(args.discrepancies)
    /\ pcFn' = "return"
    /\ UNCHANGED <<args, batchVars, agentVars, runVars>>

SpecResolve == InitResolve /\ [][Resolve]_vars

-----------------------------------------------------------------------------
(* The aggregator applied to every list of source outcomes. *)

AggSources == {"npi_registry", "google_places", "pdf_document"}
AggConfidences == {0, 40, 100}
AggAges == {0, 200, 3000}

AggOutcomes ==
    {SourceValidation(s, ok, c, <<>>, age) :
        s \in AggSources, ok \in BOOLEAN, c \in AggConfidences, age \in AggAges}

InitAggregate ==
    /\ args \in [source_validations : SeqUpTo(AggOutcomes, MaxOutcomes)]
    /\ ret = <<>>
    /\ pcFn = "call"
    /\ BatchIdle
    /\ AgentIdle
    /\ RunIdle

Aggregate ==
    /\ pcFn = "call"
    /\ ret' = calculate_overall_confidence(args.source_validations)
    /\ pcFn' = "return"
    /\ UNCHANGED <<args, batchVars, agentVars, runVars>>

SpecAggregate == InitAggregate /\ [][Aggregate]_vars

-----------------------------------------------------------------------------
(* validate_batch over long provider lists, task by task.                   *)
(*                                                                          *)
(* Record i of the list has id i.  The tasks of a gather start in the order *)
(* of their creation and finish in any order; gather hands their results    *)
(* back in the order of the tasks, so which of the running tasks finishes   *)
(* is not recorded: begun and done count the tasks of the running gather,   *)
(* in_flight the records whose queries are in progress.  What a record's    *)
(* validate_provider returns is fixed by the record; args.raiser is the     *)
(* record whose validate_provider raises (0: none).                         *)

BatchTotals == {0, 1, BATCH_SIZE, BATCH_SIZE + 1, MaxRecords}

OutcomeOf(i) ==
    CASE i % 4 = 0 -> OutcomeClean
      [] i % 4 = 1 -> OutcomeMismatch
      [] i % 4 = 2 -> OutcomeCritical
      [] i % 4 = 3 -> OutcomeAllFailed

InitBatch ==
    /\ args \in {[total |-> t, raiser |-> r] :
                    t \in BatchTotals,
                    r \in {0, 1, BATCH_SIZE, BATCH_SIZE + 1, MaxRecords}}
    /\ args.raiser <= args.total
    /\ ret = <<>>
    /\ pcFn = "for"
    /\ BatchIdle
    /\ AgentIdle
    /\ RunIdle

BatchEnd == Min(batch_start + BATCH_SIZE, args.total)

(* Lines 143-148: the next batch's tasks are created and handed to gather;  *)
(* line 174 when the range is exhausted.                                    *)
ForBatch ==
    /\ pcFn = "for"
    /\ IF batch_start < args.total
       THEN /\ pcFn' = "gather"
            /\ begun' = 0
            /\ done' = 0
            /\ UNCHANGED ret
       ELSE /\ pcFn' = "return"
            /\ ret' = all_results
            /\ UNCHANGED <<begun, done>>
    /\ UNCHANGED <<args, batch_start, in_flight, batch_results, all_results,
                   finished, stop_requested, agentVars, runVars>>

(* A task of the gather starts: validate_provider issues the record's       *)
(* source queries.                                                          *)
TaskStarts ==
    /\ pcFn = "gather"
    /\ begun < BatchEnd - batch_start
    /\ begun' = begun + 1
    /\ in_flight' = in_flight + 1
    /\ UNCHANGED <<args, ret, pcFn, batch_start, done, batch_results, all_results,
                   finished, stop_requested, agentVars, runVars>>

(* A running task finishes: it returned or it raised. *)
TaskFinishes ==
    /\ pcFn \in {"for", "gather"}
    /\ in_flight > 0
    /\ done' = done + 1
    /\ in_flight' = in_flight - 1
    /\ UNCHANGED <<args, ret, pcFn, batch_start, begun, batch_results, all_results,
                   finished, stop_requested, agentVars, runVars>>

(* The await of asyncio.gather with return_exceptions=True resumes when     *)
(* every task has finished.                                                 *)
gather_returns_once_started(size, started_tasks, finished_tasks) ==
    started_tasks = size

gather_returns(size, started_tasks, finished_tasks) == finished_tasks = size

(* Lines 149-172: gather returns, the results are stored, progress is       *)
(* reported and the loop goes on.  The callback may raise.                  *)
StoreBatch ==
    /\ pcFn = "gather"
    /\ gather_returns(BatchEnd - batch_start, begun, done)
    /\ LET results_by_task ==
               [i \in (batch_start + 1)..BatchEnd |->
                   IF i = args.raiser THEN Raised ELSE OutcomeOf(i)]
           ids == [i \in 1..args.total |-> i]
       IN  /\ batch_results' = results_by_task
           /\ all_results' = store_batch_results(ids, all_results, results_by_task,
                                                 batch_start + 1, BatchEnd)
    /\ \E raises \in BOOLEAN :
          IF raises
          THEN pcFn' = "raised" /\ UNCHANGED batch_start
          ELSE pcFn' = "for" /\ batch_start' = batch_start + BATCH_SIZE
    /\ UNCHANGED <<args, ret, begun, done, in_flight, finished, stop_requested,
                   agentVars, runVars>>

(* The caller asks the run to stop while a batch is being processed.        *)
(* validate_batch takes no stop signal and reads none.                      *)
RequestStop ==
    /\ pcFn = "gather"
    /\ ~stop_requested
    /\ stop_requested' = TRUE
    /\ UNCHANGED <<args, ret, pcFn, batch_start, begun, done, in_flight,
                   batch_results, all_results, finished, agentVars, runVars>>

NextBatch ==
    \/ ForBatch
    \/ TaskStarts
    \/ TaskFinishes
    \/ StoreBatch
    \/ RequestStop

SpecBatch == InitBatch /\ [][NextBatch]_vars

-----------------------------------------------------------------------------
(* validate_batch and assess_batch over a short provider list, the tasks of *)
(* the gather followed one by one: each finishes in its turn with what its  *)
(* source adapters returned or raised.                                      *)

GatherIds == {1, 2, 3}

NpiReturns == {SourceValidation("npi_registry", TRUE, 100, <<>>, 0), Raised}

GoogleReturns ==
    {SourceValidation("google_places", TRUE, 85,
         <<Discrepancy(<<"phone">>, "phone_mismatch", "medium", 85,
                       "google_places")>>, 0),
     Raised}

WebsiteReturns == {SourceValidation("practice_website", TRUE, 80, <<>>, 0), Raised}

AdapterReturns ==
    {<<n, g, w>> : n \in NpiReturns, g \in GoogleReturns, w \in WebsiteReturns}

InitGather ==
    /\ args \in [ids : UNION {[1..n -> GatherIds] : n \in 1..GatherRecords}]
    /\ ret = <<>>
    /\ pcFn = "call"
    /\ BatchIdle
    /\ AgentIdle
    /\ RunIdle

(* Lines 143-149: the list is shorter than BATCH_SIZE, so its one batch     *)
(* holds every record; the tasks are created and started.                   *)
CreateTasks ==
    /\ pcFn = "call"
    /\ Len(args.ids) <= BATCH_SIZE
    /\ pcFn' = "gather"
    /\ begun' = Len(args.ids)
    /\ in_flight' = Len(args.ids)
    /\ UNCHANGED <<args, ret, batch_start, done, batch_results, all_results,
                   finished, stop_requested, agentVars, runVars>>

(* The task of record i finishes: validate_provider returns the converted   *)
(* results of its source tasks, or raises.                                  *)
TaskCompletes ==
    /\ pcFn = "gather"
    /\ \E i \in 1..Len(args.ids) \ DOMAIN batch_results :
          \/ \E validation_results \in AdapterReturns :
                /\ batch_results' = (i :> validate_provider(validation_results))
                                     @@ batch_results
                /\ finished' = Append(finished,
                                      [task |-> i, adapters |-> validation_results])
          \/ /\ batch_results' = (i :> Raised) @@ batch_results
             /\ finished' = Append(finished, [task |-> i, adapters |-> <<>>])
    /\ done' = done + 1
    /\ in_flight' = in_flight - 1
    /\ UNCHANGED <<args, ret, pcFn, batch_start, begun, all_results, stop_requested,
                   agentVars, runVars>>

(* What the await of gather evaluates to: the results in the order of the   *)
(* tasks, whatever the order they finished in.                              *)
gather_as_completed(task_results, completion) ==
    [k \in 1..Len(completion) |-> task_results[completion[k].task]]

gather(task_results, completion) ==
    [i \in 1..Len(completion) |-> task_results[i]]

(* Lines 149-174: gather returns, the results are stored, progress is       *)
(* reported and validate_batch returns.  The callback may raise.            *)
StoreGathered ==
    /\ pcFn = "gather"
    /\ gather_returns(Len(args.ids), begun, done)
    /\ all_results' = store_batch_results(args.ids, all_results,
                                          gather(batch_results, finished),
                                          1, Len(args.ids))
    /\ \E raises \in BOOLEAN : pcFn' = IF raises THEN "raised" ELSE "assess"
    /\ UNCHANGED <<args, ret, batch_start, begun, done, in_flight, batch_results,
                   finished, stop_requested, agentVars, runVars>>

(* orchestrator.py, lines 144-146: what validate_batch returned is handed   *)
(* to assess_batch.                                                         *)
AssessBatch ==
    /\ pcFn = "assess"
    /\ ret' = [source_validations |-> all_results,
               validation_results |-> assess_batch(args.ids, all_results, 1,
                                                   EmptyDict)]
    /\ stats' = stats_after_each(stats, assess_each(args.ids, all_results), 1)
    /\ assessed' = assessed \o AssessedEntries(assess_each(args.ids, all_results))
    /\ pcFn' = "return"
    /\ UNCHANGED <<args, batchVars, calls, runVars>>

NextGather ==
    \/ CreateTasks
    \/ TaskCompletes
    \/ StoreGathered
    \/ AssessBatch

SpecGather == InitGather /\ [][NextGather]_vars

-----------------------------------------------------------------------------
(* The directory agent applied to every list of validation results.         *)
(*                                                                          *)
(* Record k has id k.  Its result carries the three flags as assess_provider *)
(* sets them from some confidence and discrepancy list, or the record has   *)
(* no result (Missing).                                                     *)

DecisionFlags == {decide(c, ds) : c \in ConfValues, ds \in SeqUpTo(DecideDiscs, 1)}

Missing == [missing |-> TRUE]

(* The dict validation_results of the records that have a result. *)
ResultsDict(flags) ==
    LET with == {k \in 1..Len(flags) : flags[k] # Missing}
    IN  [keys |-> [n \in 1..Cardinality(with) |->
                      CHOOSE k \in with : Cardinality({h \in with : h < k}) = n - 1],
         val |-> [k \in with |-> flags[k]]]

InitDirectory ==
    /\ args \in [flags : SeqUpTo(DecisionFlags \cup {Missing}, MaxResults)]
    /\ ret = <<>>
    /\ pcFn = "call"
    /\ BatchIdle
    /\ AgentIdle
    /\ RunIdle

(* orchestrator.py, lines 163-166: process_batch. *)
ProcessBatch ==
    /\ pcFn = "call"
    /\ LET ids == [k \in 1..Len(args.flags) |-> k]
           validation_results == ResultsDict(args.flags)
       IN  ret' = [actions |-> process_batch(ids, validation_results, 1, EmptySummary),
                   routed |-> [k \in DOMAIN validation_results.val |->
                       process_validation_result(validation_results.val[k])]]
    /\ pcFn' = "processed"
    /\ UNCHANGED <<args, batchVars, agentVars, runVars>>

(* orchestrator.py, lines 178-181: generate_validation_report. *)
ReportBatch ==
    /\ pcFn = "processed"
    /\ LET ids == [k \in 1..Len(args.flags) |-> k]
       IN  ret' = [report |-> generate_validation_report(ids, ResultsDict(args.flags))]
                  @@ ret
    /\ pcFn' = "return"
    /\ UNCHANGED <<args, batchVars, agentVars, runVars>>

NextDirectory ==
    \/ ProcessBatch
    \/ ReportBatch

SpecDirectory == InitDirectory /\ [][NextDirectory]_vars

-----------------------------------------------------------------------------
(* The freshness factor applied to one outcome of every age around the      *)
(* steps, alone and next to a fresh successful outcome of the NPI registry. *)

FreshAges == {0, 23, 24, 25, 167, 168, 719, 720, 2159, 2160, 3000}

BaseOutcome == SourceValidation("npi_registry", TRUE, 50, <<>>, 200)

InitFreshness ==
    /\ args \in [outcome : {SourceValidation(s, ok, c, <<>>, age) :
                                s \in DataSource, ok \in BOOLEAN,
                                c \in {40, 100}, age \in FreshAges}]
    /\ ret = <<>>
    /\ pcFn = "call"
    /\ BatchIdle
    /\ AgentIdle
    /\ RunIdle

Freshness ==
    /\ pcFn = "call"
    /\ ret' = [factor |-> calculate_freshness_factor(args.outcome.age),
               alone |-> calculate_overall_confidence(<<args.outcome>>),
               with_base |-> calculate_overall_confidence(
                                 <<BaseOutcome, args.outcome>>)]
    /\ pcFn' = "return"
    /\ UNCHANGED <<args, batchVars, agentVars, runVars>>

SpecFreshness == InitFreshness /\ [][Freshness]_vars

-----------------------------------------------------------------------------
(* One record taken through validate_provider, the store of validate_batch  *)
(* and assess_batch, each adapter returning every kind of outcome its code  *)
(* builds.                                                                  *)

(* npi_service.py, lines 40-46: the NPI is not in the registry. *)
NpiNotFound ==
    [SourceValidation("npi_registry", FALSE, 0, <<>>, 0) EXCEPT
        !.error_message = [str |-> "not found in registry"]]

(* npi_service.py, lines 49-60: found, with what _compare_data collected. *)
NpiMismatch ==
    SourceValidation("npi_registry", TRUE, 70,
        <<Discrepancy(<<"license">>, "license_issue", "high", 95,
                      "npi_registry")>>, 0)

(* google_places_service.py, lines 41-47: not found doesn't mean invalid. *)
GoogleNotFound ==
    [SourceValidation("google_places", FALSE, 50, <<>>, 0) EXCEPT
        !.error_message = [str |-> "not found on Google"]]

(* web_scraper_service.py, lines 42-48: no website URL provided. *)
WebsiteMissing ==
    [SourceValidation("practice_website", FALSE, 0, <<>>, 0) EXCEPT
        !.error_message = [str |-> "No website URL provided"]]

WebsiteInaccessible_with_discrepancies ==
    [SourceValidation("practice_website", FALSE, 30,
         <<Discrepancy(<<"phone">>, "phone_mismatch", "high", 75,
                       "practice_website")>>, 0) EXCEPT
        !.error_message = [str |-> "Website not accessible"]]

(* web_scraper_service.py, lines 53-59: not accessible or extraction failed. *)
WebsiteInaccessible ==
    [SourceValidation("practice_website", FALSE, 30, <<>>, 0) EXCEPT
        !.error_message = [str |-> "Website not accessible"]]

RecordAdapterReturns ==
    {<<n, g, w>> : n \in NpiReturns \cup {NpiMismatch, NpiNotFound},
                   g \in GoogleReturns \cup {GoogleNotFound},
                   w \in WebsiteReturns \cup {WebsiteMissing, WebsiteInaccessible}}

(* task_raises: validate_provider itself raised, so gather hands back the   *)
(* exception in the record's place.                                         *)
InitRecord ==
    /\ args \in [adapters : RecordAdapterReturns, task_raises : BOOLEAN]
    /\ ret = <<>>
    /\ pcFn = "call"
    /\ BatchIdle
    /\ AgentIdle
    /\ RunIdle

(* data_validation_agent.py, validate_batch on the one-record list <<1>>. *)
ValidateRecord ==
    /\ pcFn = "call"
    /\ LET result == IF args.task_raises THEN Raised
                     ELSE validate_provider(args.adapters)
       IN  ret' = [source_validations |->
                      store_batch_results(<<1>>, EmptyDict, <<result>>, 1, 1)]
    /\ pcFn' = "assess"
    /\ UNCHANGED <<args, batchVars, agentVars, runVars>>

(* quality_assurance_agent.py, assess_batch on what validate_batch returned. *)
AssessRecord ==
    /\ pcFn = "assess"
    /\ ret' = [source_validations |-> ret.source_validations,
               validation_results |->
                   assess_batch(<<1>>, ret.source_validations, 1, EmptyDict)]
    /\ stats' = stats_after_each(stats,
                                  assess_each(<<1>>, ret.source_validations), 1)
    /\ assessed' = assessed
                    \o AssessedEntries(assess_each(<<1>>, ret.source_validations))
    /\ pcFn' = "return"
    /\ UNCHANGED <<args, batchVars, calls, runVars>>

NextRecord ==
    \/ ValidateRecord
    \/ AssessRecord

SpecRecord == InitRecord /\ [][NextRecord]_vars

-----------------------------------------------------------------------------
(* The same source outcomes scored by assess_provider, which resolves the   *)
(* discrepancies first, and by calculate_validation_result, which does not. *)

CompareConfidences == {50, 80, 90}

CompareDiscs(source) ==
    {Discrepancy(<<"phone">>, t, p, c, source) :
        t \in {"phone_mismatch", "license_issue"}, p \in {"high", "medium"},
        c \in {70, 90}}

CompareOutcomes(source) ==
    {SourceValidation(source, TRUE, c, ds, 200) :
        c \in CompareConfidences, ds \in SeqUpTo(CompareDiscs(source), 1)}

InitCompare ==
    /\ args \in [source_validations :
                    {<<n, g>> : n \in CompareOutcomes("npi_registry"),
                                g \in CompareOutcomes("google_places")}]
    /\ ret = <<>>
    /\ pcFn = "call"
    /\ BatchIdle
    /\ AgentIdle
    /\ RunIdle

Compare ==
    /\ pcFn = "call"
    /\ ret' = [resolved |-> assess_provider(1, args.source_validations),
               raw |-> calculate_validation_result(1, args.source_validations)]
    /\ stats' = stats_after(stats, assess_provider(1, args.source_validations))
    /\ assessed' = Append(assessed,
                          AssessedEntry(assess_provider(1, args.source_validations)))
    /\ pcFn' = "return"
    /\ UNCHANGED <<args, batchVars, calls, runVars>>

SpecCompare == InitCompare /\ [][Compare]_vars

-----------------------------------------------------------------------------
(* The statistics of the quality-assurance agent over any sequence of       *)
(* assess_provider and reset_stats calls.                                   *)

(* Confidence 100 with one confident, medium discrepancy of a critical      *)
(* type: auto_updated and urgent_review are both set.                       *)
OutcomeBothFlags ==
    <<SourceValidation("npi_registry", TRUE, 100,
          <<Discrepancy(<<"npi">>, "status_change", "medium", 90,
                        "npi_registry")>>, 0)>>

StatsOutcomes ==
    {DictValues(OutcomeClean), DictValues(OutcomeMismatch),
     DictValues(OutcomeCritical), DictValues(OutcomeAllFailed), OutcomeBothFlags}

InitStats ==
    /\ args = <<>>
    /\ ret = <<>>
    /\ pcFn = "ready"
    /\ BatchIdle
    /\ AgentIdle
    /\ RunIdle

AssessProvider ==
    /\ pcFn = "ready"
    /\ stats.providers_assessed < MaxAssessed
    /\ \E validations \in StatsOutcomes :
          LET result == assess_provider(1, validations)
          IN  /\ args' = [source_validations |-> validations]
              /\ ret' = result
              /\ stats' = stats_after(stats, result)
              /\ assessed' = Append(assessed, AssessedEntry(result))
    /\ UNCHANGED <<pcFn, batchVars, calls, runVars>>

ResetStats ==
    /\ pcFn = "ready"
    /\ stats' = reset_stats
    /\ assessed' = <<>>
    /\ UNCHANGED <<args, ret, pcFn, batchVars, calls, runVars>>

NextStats ==
    \/ AssessProvider
    \/ ResetStats

SpecStats == InitStats /\ [][NextStats]_vars

-----------------------------------------------------------------------------
(* Concurrent calls of run_full_validation on the orchestrator singleton.   *)
(*                                                                          *)
(* Each call is followed through the statements that write the fields of    *)
(* the orchestrator: is_running, current_stage, progress, last_run_results. *)
(* The calls are made without a progress callback and with enrichment       *)
(* enabled; what the stages compute is the subject of Spec.  The finally    *)
(* block and the return after it are one step: a call has returned once its *)
(* finally block has run.                                                   *)

Calls == 1..NumCalls

Stages ==
    <<"data_validation", "enrichment", "quality_assessment",
      "directory_management", "reporting">>

(* The progress reported at the head of each stage. *)
StageHeadProgress == <<0, 25, 50, 75, 95>>

NotCalled == [at |-> "off", stage |-> 0]

InitConcurrent ==
    /\ args = <<>>
    /\ ret = <<>>
    /\ pcFn = "idle"
    /\ BatchIdle
    /\ stats = reset_stats
    /\ assessed = <<>>
    /\ calls = [c \in Calls |-> NotCalled]
    /\ RunIdle

(* Line 78. *)
CallStart(c) ==
    /\ calls[c].at = "off"
    /\ is_running' = TRUE
    /\ calls' = [calls EXCEPT ![c].at = "try"]
    /\ UNCHANGED <<args, ret, pcFn, batchVars, stats, assessed, pc, config,
                   has_callback, current_stage, progress, last_run_results, results,
                   source_validations, loop, propagating, escaped_from, escaped_by,
                   started, completed>>

(* Lines 95-97, 114-116, 133-135, 152-154, 171-173: the head of the next    *)
(* stage.                                                                   *)
CallStageHead(c) ==
    /\ calls[c].at \in {"try", "stage"}
    /\ calls[c].stage < Len(Stages)
    /\ LET n == calls[c].stage + 1
       IN  /\ current_stage' = Stages[n]
           /\ progress' = RatInt(StageHeadProgress[n])
           /\ calls' = [calls EXCEPT ![c] = [at |-> "stage", stage |-> n]]
    /\ UNCHANGED <<args, ret, pcFn, batchVars, stats, assessed, pc, config,
                   has_callback, is_running, last_run_results, results,
                   source_validations, loop, propagating, escaped_from, escaped_by,
                   started, completed>>

(* An exception leaves the stage the call is in. *)
CallStageRaises(c) ==
    /\ calls[c].at = "stage"
    /\ calls' = [calls EXCEPT ![c].at = "except"]
    /\ UNCHANGED <<args, ret, pcFn, batchVars, stats, assessed, runVars>>

(* Lines 204-211: _report_progress("Error", self.progress, ...) writes      *)
(* self.progress back.                                                      *)
CallExcept(c) ==
    /\ calls[c].at = "except"
    /\ calls' = [calls EXCEPT ![c].at = "finally"]
    /\ UNCHANGED <<args, ret, pcFn, batchVars, stats, assessed, runVars>>

(* Lines 193-202, after the last stage. *)
CallStore(c) ==
    /\ calls[c].at = "stage"
    /\ calls[c].stage = Len(Stages)
    /\ progress' = RatInt(100)
    /\ last_run_results' = [results_of_call |-> c]
    /\ calls' = [calls EXCEPT ![c].at = "finally"]
    /\ UNCHANGED <<args, ret, pcFn, batchVars, stats, assessed, pc, config,
                   has_callback, is_running, current_stage, results,
                   source_validations, loop, propagating, escaped_from, escaped_by,
                   started, completed>>

(* Lines 213-217. *)
CallFinally(c) ==
    /\ calls[c].at = "finally"
    /\ is_running' = FALSE
    /\ current_stage' = "None"
    /\ calls' = [calls EXCEPT ![c].at = "returned"]
    /\ UNCHANGED <<args, ret, pcFn, batchVars, stats, assessed, pc, config,
                   has_callback, progress, last_run_results, results,
                   source_validations, loop, propagating, escaped_from, escaped_by,
                   started, completed>>

(* get_pipeline_status, lines 262-272, without elapsed_seconds. *)
get_pipeline_status ==
    [is_running |-> is_running,
     current_stage |-> current_stage,
     progress |-> progress,
     config |-> config]

NextConcurrent ==
    \E c \in Calls :
        \/ CallStart(c)
        \/ CallStageHead(c)
        \/ CallStageRaises(c)
        \/ CallExcept(c)
        \/ CallStore(c)
        \/ CallFinally(c)

SpecConcurrent == InitConcurrent /\ [][NextConcurrent]_vars

-----------------------------------------------------------------------------
(* Properties of the decision rules, checked under SpecDecide *)

Returned == pcFn = "return"

NoHigh(ds) == \A i \in 1..Len(ds) : ds[i].priority # "high"
AllConfident(ds) == \A i \in 1..Len(ds) : ds[i].confidence >= 75
HasCritical(ds) ==
    \E i \in 1..Len(ds) :
        ds[i].type \in {"license_issue", "npi_invalid", "status_change"}
HighCount(ds) == Cardinality({i \in 1..Len(ds) : ds[i].priority = "high"})
AtLeast(c, k) == c.n >= k * c.d

(* C1: for every confidence and every discrepancy list exactly one of the   *)
(* flags auto_updated, urgent_review, needs_review is true; auto_updated    *)
(* and urgent_review are never both true.                                   *)
C1_ExactlyOneFlag ==
    Returned =>
        /\ ~(ret.auto_updated /\ ret.urgent_review)
        /\ Cardinality({f \in {"auto_updated", "urgent_review", "needs_review"} :
                            ret[f]}) = 1

(* C5: should_auto_update is true exactly when confidence >= 80, no         *)
(* discrepancy has priority HIGH and every discrepancy has confidence >= 75.*)
C5_AutoUpdateIff ==
    Returned =>
        (ret.auto_updated <=>
            /\ AtLeast(args.confidence, 80)
            /\ NoHigh(args.discrepancies)
            /\ AllConfident(args.discrepancies))

(* A single low-confidence discrepancy blocks auto-update at overall 100. *)
C5_Witness ==
    /\ Returned
    /\ args.confidence = RatInt(100)
    /\ Len(args.discrepancies) = 1
    /\ args.discrepancies[1].priority = "low"
    /\ args.discrepancies[1].confidence = 74
    /\ ~ret.auto_updated

(* C6: needs_urgent_review is true exactly when confidence < 60, or some    *)
(* discrepancy has a critical type, or at least 2 have priority HIGH.       *)
C6_UrgentIff ==
    Returned =>
        (ret.urgent_review <=>
            \/ ~AtLeast(args.confidence, 60)
            \/ HasCritical(args.discrepancies)
            \/ HighCount(args.discrepancies) >= 2)

(* Two HIGH discrepancies of a non-critical type at a confidence of 60. *)
C6_Witness ==
    /\ Returned
    /\ args.confidence = RatInt(60)
    /\ ~HasCritical(args.discrepancies)
    /\ HighCount(args.discrepancies) = 2
    /\ ret.urgent_review

(* C7: the status is VALIDATED from 80 up, NEEDS_REVIEW from 60 up to 80,   *)
(* URGENT below 60, and never PENDING or ERROR.                             *)
C7_StatusBands ==
    Returned =>
        /\ ret.status \in {"validated", "needs_review", "urgent"}
        /\ ret.status = "validated" <=> AtLeast(args.confidence, 80)
        /\ ret.status = "needs_review" <=>
               (AtLeast(args.confidence, 60) /\ ~AtLeast(args.confidence, 80))
        /\ ret.status = "urgent" <=> ~AtLeast(args.confidence, 60)

(* Exactly 60 is NEEDS_REVIEW. *)
C7_Witness ==
    /\ Returned
    /\ args.confidence = RatInt(60)
    /\ ret.status = "needs_review"

(* C27: in every result auto_updated implies status validated, status       *)
(* urgent implies urgent_review, and the status is never pending or error.  *)
C27_StatusMatchesFlags ==
    Returned =>
        /\ ret.auto_updated => ret.status = "validated"
        /\ ret.status = "urgent" => ret.urgent_review
        /\ ret.status \notin {"pending", "error"}

(* Exactly 80 with one confident, medium discrepancy is auto-updated and    *)
(* validated.                                                               *)
C27_Witness ==
    /\ Returned
    /\ args.confidence = RatInt(80)
    /\ Len(args.discrepancies) = 1
    /\ ret.auto_updated
    /\ ret.status = "validated"

-----------------------------------------------------------------------------
(* Properties of the aggregator, checked under SpecAggregate *)

RECURSIVE SumOver(_, _, _)
SumOver(vals, S, ok) ==
    IF S = {} THEN [num |-> 0, den |-> 0]
    ELSE LET i == CHOOSE i \in S : TRUE
             rest == SumOver(vals, S \ {i}, ok)
             w == source_weight(vals[i].source)
         IN  IF ok
             THEN [num |-> rest.num + w * vals[i].confidence
                                        * calculate_freshness_factor(vals[i].age),
                   den |-> rest.den + w]
             ELSE [num |-> rest.num + w * 10 * 100, den |-> rest.den + w]

Successes(vals) == {i \in 1..Len(vals) : vals[i].success}
Failures(vals) == {i \in 1..Len(vals) : ~vals[i].success}

(* clamp((sum of successes - sum of penalties) / weight of successes, 0, 100) *)
Expected(vals) ==
    LET good == SumOver(vals, Successes(vals), TRUE)
        bad == SumOver(vals, Failures(vals), FALSE)
        num == good.num - bad.num
        den == good.den * 100
    IN  IF good.den = 0 THEN RatInt(0)
        ELSE IF num < 0 THEN RatInt(0)
        ELSE IF num > 100 * den THEN RatInt(100)
        ELSE Rat(num, den)

(* C8: the result is the clamped quotient of the success contributions less *)
(* the failure penalties by the weight of the successes alone; 0 for an     *)
(* empty list and when nothing succeeded; a failed outcome's raw confidence *)
(* does not change it.                                                      *)
C8_AggregateFormula ==
    Returned =>
        LET vals == args.source_validations
        IN  /\ RatEq(ret, Expected(vals))
            /\ Successes(vals) = {} => ret = RatInt(0)
            /\ \A i \in Failures(vals) : \A c \in AggConfidences :
                   RatEq(calculate_overall_confidence(
                             [vals EXCEPT ![i].confidence = c]), ret)

(* One success and one failure with a raw confidence of its own, the result *)
(* strictly between the bounds.                                             *)
C8_Witness ==
    /\ Returned
    /\ Len(args.source_validations) = 2
    /\ args.source_validations[1].success
    /\ ~args.source_validations[2].success
    /\ args.source_validations[2].confidence = 40
    /\ RatLT(RatInt(0), ret)
    /\ RatLT(ret, RatInt(100))

(* C9: the result lies in [0,100] for every list of outcomes. *)
C9_ConfidenceInRange ==
    Returned => ret.d > 0 /\ 0 <= ret.n /\ ret.n <= 100 * ret.d

(* The penalties exceed the successful contributions. *)
C9_Witness ==
    /\ Returned
    /\ LET acc == confidence_loop(args.source_validations, 1, [wc |-> 0, tw |-> 0])
       IN  acc.tw > 0 /\ acc.wc < 0
    /\ ret = RatInt(0)

(* C21: appending one more successful outcome whose raw confidence is at    *)
(* least the current aggregate, whatever its source and its age, never      *)
(* yields a smaller aggregate.                                              *)
C21_AppendMonotone ==
    Returned =>
        \A o \in AggOutcomes :
            (o.success /\ RatGE(RatInt(o.confidence), ret)) =>
                RatGE(calculate_overall_confidence(
                          Append(args.source_validations, o)), ret)

-----------------------------------------------------------------------------
(* Properties of the freshness factor, checked under SpecFreshness *)

(* The factor of the claim's table, scaled by 100; ages are in hours. *)
StepFactor(age) ==
    CASE age < 24 -> 105
      [] 24 <= age /\ age < 7 * 24 -> 102
      [] 7 * 24 <= age /\ age < 30 * 24 -> 100
      [] 30 * 24 <= age /\ age < 90 * 24 -> 95
      [] 90 * 24 <= age -> 90

Clamp(n, d) == IF n < 0 THEN RatInt(0) ELSE IF n > 100 * d THEN RatInt(100) ELSE Rat(n, d)

(* C24: the freshness factor is 1.05 below 24 hours, 1.02 from 24 hours to  *)
(* below 7 days, 1.00 from 7 to below 30 days, 0.95 from 30 to below 90     *)
(* days and 0.90 from 90 days on; it multiplies the confidence of a         *)
(* successful outcome and leaves the penalty of a failed one alone.         *)
C24_FreshnessSteps ==
    Returned =>
        LET o == args.outcome
            w == SOURCE_WEIGHTS[o.source]
            base == SOURCE_WEIGHTS[BaseOutcome.source]
        IN  /\ ret.factor = StepFactor(o.age)
            /\ o.success =>
                   RatEq(ret.alone, Clamp(o.confidence * StepFactor(o.age), 100))
            /\ ~o.success =>
                   RatEq(ret.with_base,
                         Clamp(base * BaseOutcome.confidence * 100 - w * 10 * 100,
                               base * 100))

(* A successful outcome exactly 30 days old is scaled by 0.95. *)
C24_Witness ==
    /\ Returned
    /\ args.outcome.age = 30 * 24
    /\ args.outcome.confidence = 40
    /\ args.outcome.success
    /\ ret.factor = 95
    /\ ret.alone = RatInt(38)

-----------------------------------------------------------------------------
(* Properties of the resolver, checked under SpecResolve *)

Pair(d) == <<d.field_name, d.type>>
Pairs(ds) == {Pair(ds[i]) : i \in 1..Len(ds)}

(* The first discrepancy of ds with the highest confidence among those of   *)
(* the pair.                                                                *)
Winner(ds, pr) ==
    LET same == {i \in 1..Len(ds) : Pair(ds[i]) = pr}
        best == {i \in same : \A j \in same : ds[j].confidence <= ds[i].confidence}
    IN  ds[CHOOSE i \in best : \A j \in best : i <= j]

(* C10: the output holds exactly one discrepancy per (field_name, type)     *)
(* pair of the input: the first of those with the highest confidence.       *)
C10_DedupKeepsBest ==
    Returned =>
        LET ds == args.discrepancies
        IN  /\ Len(ret) = Cardinality(Pairs(ds))
            /\ \A pr \in Pairs(ds) :
                   Cardinality({k \in 1..Len(ret) : Pair(ret[k]) = pr}) = 1
            /\ \A k \in 1..Len(ret) : ret[k] = Winner(ds, Pair(ret[k]))

(* Two duplicates with equal confidence that differ in priority, and a      *)
(* third discrepancy of the same type for another field.                    *)
C10_Witness ==
    /\ Returned
    /\ LET ds == args.discrepancies
       IN  /\ Len(ds) = 3
           /\ Pair(ds[1]) = Pair(ds[2])
           /\ ds[1].confidence = ds[2].confidence
           /\ ds[1].priority # ds[2].priority
           /\ ds[3].type = ds[1].type
           /\ ds[3].field_name # ds[1].field_name
           /\ Len(ret) = 2
           /\ \E k \in 1..2 : ret[k] = ds[1]

Rank(p) == CASE p = "high" -> 0 [] p = "medium" -> 1 [] p = "low" -> 2

(* The place in ds of the first discrepancy that has the dedup key of d. *)
FirstOccurrence(ds, d) ==
    CHOOSE i \in 1..Len(ds) :
        /\ dedup_key(ds[i]) = dedup_key(d)
        /\ \A j \in 1..(i - 1) : dedup_key(ds[j]) # dedup_key(d)

(* C11: the output is ordered by priority rank ascending (HIGH, MEDIUM,     *)
(* LOW), within one priority by confidence descending, and survivors equal  *)
(* in both keep the order in which their dedup keys first occur in the      *)
(* input.                                                                   *)
C11_OutputOrder ==
    Returned =>
        \A k \in 1..(Len(ret) - 1) :
            LET a == ret[k]
                b == ret[k + 1]
            IN  \/ Rank(a.priority) < Rank(b.priority)
                \/ /\ a.priority = b.priority
                   /\ a.confidence > b.confidence
                \/ /\ a.priority = b.priority
                   /\ a.confidence = b.confidence
                   /\ FirstOccurrence(args.discrepancies, a)
                          < FirstOccurrence(args.discrepancies, b)

(* The survivor of the first key is the third discrepancy of the input; it  *)
(* ties with the second and still comes out ahead of it.                    *)
C11_Witness ==
    /\ Returned
    /\ LET ds == args.discrepancies
       IN  /\ Len(ds) = 3
           /\ dedup_key(ds[1]) = dedup_key(ds[3])
           /\ dedup_key(ds[1]) # dedup_key(ds[2])
           /\ ds[1].confidence < ds[3].confidence
           /\ ds[2].priority = ds[3].priority
           /\ ds[2].confidence = ds[3].confidence
           /\ ret = <<ds[3], ds[2]>>

(* C22: the resolver is idempotent: applied to its own output it returns    *)
(* the same list in the same order.                                         *)
C22_ResolveIdempotent ==
    Returned => prioritize_discrepancies(ret) = ret

(* An input with a duplicate whose two survivors tie in priority and        *)
(* confidence: the first pass removed and reordered something.              *)
C22_Witness ==
    /\ Returned
    /\ Len(args.discrepancies) = 3
    /\ Len(ret) = 2
    /\ sort_key(ret[1]) = sort_key(ret[2])
    /\ ret[1] # args.discrepancies[1]
    /\ prioritize_discrepancies(ret) = ret

(* The permutations of the list ds. *)
PermutationsOf(ds) ==
    {[k \in 1..Len(ds) |-> ds[f[k]]] :
        f \in {g \in [1..Len(ds) -> 1..Len(ds)] :
                  \A i, j \in 1..Len(ds) : g[i] = g[j] => i = j}}

Survivors(ds) == {ds[k] : k \in 1..Len(ds)}

(* C23: the resolver is order-independent: every permutation of the input   *)
(* leaves the same set of survivors, the same element for every             *)
(* (field_name, type) key, also when duplicates of a key have equal         *)
(* confidence and differ in priority.                                       *)
C23_OrderIndependent ==
    Returned =>
        \A permuted \in PermutationsOf(args.discrepancies) :
            Survivors(prioritize_discrepancies(permuted)) = Survivors(ret)

-----------------------------------------------------------------------------
(* Properties of validate_batch, checked under SpecBatch *)

(* C12: the records in flight never exceed BATCH_SIZE, and every record in  *)
(* flight belongs to the running batch: a batch starts no record while a    *)
(* record of an earlier batch is unfinished.                                *)
C12_InFlightBounded ==
    /\ in_flight <= BATCH_SIZE
    /\ in_flight = (IF pcFn = "gather" THEN begun - done ELSE 0)

(* The second batch of MaxRecords records has BATCH_SIZE records in flight  *)
(* and the records after it have not started.                               *)
C12_Witness ==
    /\ pcFn = "gather"
    /\ args.total = MaxRecords
    /\ batch_start = BATCH_SIZE
    /\ in_flight = BATCH_SIZE
    /\ batch_start + begun < args.total

(* C14: when validate_provider raises for one record, the dict returned by  *)
(* validate_batch holds for that record a single synthetic failed           *)
(* SourceValidation (success false, confidence 0, no discrepancies, the     *)
(* error message), and for every other record, of the same batch and of     *)
(* the later ones, the record's own outcomes.                               *)
C14_RaisingRecordIsolated ==
    (pcFn = "return" /\ args.raiser # 0) =>
        /\ ret.keys = [i \in 1..args.total |-> i]
        /\ LET stored == ret.val[args.raiser]
           IN  /\ Len(stored.keys) = 1
               /\ LET synthetic == stored.val[stored.keys[1]]
                  IN  /\ ~synthetic.success
                      /\ synthetic.confidence = 0
                      /\ synthetic.discrepancies = <<>>
                      /\ synthetic.error_message = StrOf(Raised)
        /\ \A i \in 1..args.total : i # args.raiser => ret.val[i] = OutcomeOf(i)

(* The first record of MaxRecords raises; the last record, two batches      *)
(* later, has its own outcomes.                                             *)
C14_Witness ==
    /\ pcFn = "return"
    /\ args.raiser = 1
    /\ args.total = MaxRecords
    /\ DictHas(ret, args.raiser)
    /\ ret.val[args.total] = OutcomeOf(args.total)
    /\ ret.val[2] = OutcomeOf(2)

(* C16: a stop requested while validate_batch is processing is honoured     *)
(* between batches: once it is requested the loop starts no further batch   *)
(* and the call returns the results stored so far.                          *)
C16_StopBetweenBatches ==
    [][(stop_requested /\ pcFn = "for") =>
           (pcFn' # "gather" /\ (pcFn' = "return" => ret' = all_results))]_vars

-----------------------------------------------------------------------------
(* Properties of the gathered results, checked under SpecGather *)

Distinct(ids) == \A i, j \in 1..Len(ids) : ids[i] = ids[j] => i = j

(* What the task of record k produced, as validate_batch is to store it. *)
Produced(k) ==
    IF batch_results[k] = [exception |-> TRUE]
    THEN [keys |-> <<"error">>,
          val |-> [s \in {"error"} |->
                      [source |-> "npi_registry", success |-> FALSE, confidence |-> 0,
                       discrepancies |-> <<>>, age |-> 0,
                       error_message |-> StrOf(Raised)]]]
    ELSE batch_results[k]

(* C13: for records with distinct ids and whatever the order the tasks      *)
(* finish in, validate_batch stores under each record's id what that        *)
(* record's task produced, assess_batch stores under it the result computed *)
(* from those outcomes, and both dicts keep the input order of the records. *)
C13_AttributedInInputOrder ==
    (pcFn = "return" /\ Distinct(args.ids)) =>
        /\ ret.source_validations.keys = args.ids
        /\ ret.validation_results.keys = args.ids
        /\ \A k \in 1..Len(args.ids) :
               LET id == args.ids[k]
               IN  /\ ret.source_validations.val[id] = Produced(k)
                   /\ ret.validation_results.val[id].provider_id = id
                   /\ ret.validation_results.val[id].source_validations
                          = DictValues(Produced(k))

(* Two records, the ids not ascending, the second task finishing first and  *)
(* the two tasks producing different outcomes.                              *)
C13_Witness ==
    /\ pcFn = "return"
    /\ Len(args.ids) = 2
    /\ args.ids[1] > args.ids[2]
    /\ finished[1].task = 2
    /\ batch_results[1] # batch_results[2]
    /\ ret.source_validations.val[args.ids[2]] = batch_results[2]

(* C15: when validate_provider returns, each source whose adapter raised    *)
(* has a failed SourceValidation of that source (success false, confidence  *)
(* 0, no discrepancies) and every other source has what its adapter         *)
(* returned, unchanged; this is what reaches the aggregation.               *)
C15_AdapterFailureConverted ==
    \A k \in 1..Len(finished) :
        LET adapters == finished[k].adapters
            converted == batch_results[finished[k].task]
        IN  adapters # <<>> =>
                /\ converted.keys = source_names
                /\ \A n \in 1..Len(source_names) :
                       LET outcome == converted.val[source_names[n]]
                       IN  IF adapters[n] = Raised
                           THEN /\ outcome.source = source_names[n]
                                /\ ~outcome.success
                                /\ outcome.confidence = 0
                                /\ outcome.discrepancies = <<>>
                           ELSE outcome = adapters[n]
                /\ pcFn = "return" =>
                       ret.validation_results.val[args.ids[finished[k].task]]
                           .source_validations
                       = DictValues(ret.source_validations
                                        .val[args.ids[finished[k].task]])

(* The NPI adapter raised, the other two adapters returned. *)
C15_Witness ==
    /\ pcFn = "return"
    /\ \E k \in 1..Len(finished) :
          LET adapters == finished[k].adapters
              converted == batch_results[finished[k].task]
          IN  /\ adapters # <<>>
              /\ adapters[1] = Raised
              /\ adapters[2] # Raised
              /\ adapters[3] # Raised
              /\ ~converted.val["npi_registry"].success
              /\ converted.val["google_places"] = adapters[2]

-----------------------------------------------------------------------------
(* Properties of one record's assessment, checked under SpecRecord *)

RecordOutcomes == DictValues(ret.source_validations.val[1])
RecordResult == ret.validation_results.val[1]
AllFailed(outcomes) == \A i \in 1..Len(outcomes) : ~outcomes[i].success
IsSuccess(validation) == validation.success

(* C25: a record whose source outcomes are all failed, the single error     *)
(* entry stored for a record whose validation raised included, is assessed  *)
(* with overall confidence 0, status urgent, urgent_review true,            *)
(* auto_updated false and needs_review false, whatever confidence the       *)
(* failed outcomes carry.                                                   *)
C25_AllFailedIsUrgent ==
    (Returned /\ AllFailed(RecordOutcomes)) =>
        /\ RecordResult.overall_confidence = RatInt(0)
        /\ RecordResult.status = "urgent"
        /\ RecordResult.urgent_review
        /\ ~RecordResult.auto_updated
        /\ ~RecordResult.needs_review

(* Three failed outcomes, two of them carrying a confidence above 0. *)
C25_Witness ==
    /\ Returned
    /\ RecordOutcomes = <<NpiNotFound, GoogleNotFound, WebsiteInaccessible>>
    /\ RecordResult.status = "urgent"
    /\ RecordResult.urgent_review

(* C26: every failed outcome that reaches assess_provider through          *)
(* validate_provider and validate_batch has an empty discrepancy list, so   *)
(* the resolved list and the decision are those of the successful outcomes  *)
(* alone, although assess_provider collects from every outcome.             *)
C26_FailedCarryNoDiscrepancies ==
    Returned =>
        LET outcomes == RecordOutcomes
            from_successes ==
                prioritize_discrepancies(
                    extend_all(SelectSeq(outcomes, IsSuccess), 1, <<>>))
            flags == decide(RecordResult.overall_confidence, from_successes)
        IN  /\ \A i \in 1..Len(outcomes) :
                  ~outcomes[i].success => outcomes[i].discrepancies = <<>>
            /\ RecordResult.discrepancies = from_successes
            /\ RecordResult.auto_updated = flags.auto_updated
            /\ RecordResult.urgent_review = flags.urgent_review
            /\ RecordResult.needs_review = flags.needs_review

(* A failed outcome next to two successful ones, one of which found a       *)
(* discrepancy.                                                             *)
C26_Witness ==
    /\ Returned
    /\ Len(RecordOutcomes) = 3
    /\ RecordOutcomes[1].success
    /\ RecordOutcomes[2].success
    /\ RecordOutcomes[3] = WebsiteInaccessible
    /\ Len(RecordResult.discrepancies) = 1

-----------------------------------------------------------------------------
(* Properties of the two scoring paths, checked under SpecCompare *)

(* C28: for the same outcomes, auto_updated over the raw list implies      *)
(* auto_updated over the resolved list, urgent_review over the resolved     *)
(* list implies urgent_review over the raw list, and overall_confidence and *)
(* status are the same on both paths.                                       *)
C28_ResolvedVersusRaw ==
    Returned =>
        /\ ret.raw.auto_updated => ret.resolved.auto_updated
        /\ ret.resolved.urgent_review => ret.raw.urgent_review
        /\ ret.resolved.overall_confidence = ret.raw.overall_confidence
        /\ ret.resolved.status = ret.raw.status

(* Two sources report the same field and type with priority high: the raw   *)
(* list has two high discrepancies and is urgent, the resolved list has one *)
(* and is not.                                                              *)
C28_Witness ==
    /\ Returned
    /\ ret.raw.overall_confidence = RatInt(80)
    /\ Len(ret.raw.discrepancies) = 2
    /\ Len(ret.resolved.discrepancies) = 1
    /\ ret.raw.urgent_review
    /\ ~ret.resolved.urgent_review

-----------------------------------------------------------------------------
(* Properties of the agent's statistics, checked under SpecStats *)

CountAssessed(P(_)) == Cardinality({i \in 1..Len(assessed) : P(assessed[i])})

RECURSIVE SumDiscrepancies(_)
SumDiscrepancies(entries) ==
    IF entries = <<>> THEN 0
    ELSE Head(entries).total_discrepancies + SumDiscrepancies(Tail(entries))

(* C29: after any sequence of assess_provider and reset_stats calls the     *)
(* three outcome counters add up to providers_assessed, each record         *)
(* assessed since the last reset counted in exactly one of them, in         *)
(* auto_approved when auto_updated is set and otherwise in flagged_urgent   *)
(* when urgent_review is set; total_discrepancies is the sum of the lengths *)
(* of the resolved lists since the last reset.                              *)
C29_StatsPartition ==
    LET auto(e) == e.auto_updated
        urgent(e) == ~e.auto_updated /\ e.urgent_review
        review(e) == ~e.auto_updated /\ ~e.urgent_review
    IN  /\ stats.auto_approved + stats.flagged_for_review + stats.flagged_urgent
              = stats.providers_assessed
        /\ stats.providers_assessed = Len(assessed)
        /\ stats.auto_approved = CountAssessed(auto)
        /\ stats.flagged_urgent = CountAssessed(urgent)
        /\ stats.flagged_for_review = CountAssessed(review)
        /\ stats.total_discrepancies = SumDiscrepancies(assessed)

(* After a reset, a record with both flags set and one discrepancy has      *)
(* been counted as auto-approved, and one urgent record after it.           *)
C29_Witness ==
    /\ pcFn = "ready"
    /\ Len(assessed) = 2
    /\ assessed[1].auto_updated /\ assessed[1].urgent_review
    /\ ~assessed[2].auto_updated /\ assessed[2].urgent_review
    /\ stats.auto_approved = 1
    /\ stats.flagged_urgent = 1
    /\ stats.total_discrepancies >= 1

-----------------------------------------------------------------------------
(* Properties of the directory agent, checked under SpecDirectory *)

(* C17: in the report over N records the counts auto_updated, needs_review, *)
(* urgent and errors are all non-negative and sum to N = total_providers,   *)
(* each record being counted in exactly one of them, and validated is       *)
(* auto_updated + needs_review + urgent.                                    *)
C17_ReportCounts ==
    pcFn = "return" =>
        LET report == ret.report
            N == Len(args.flags)
            CountedIn(k) ==
                {c \in {"auto_updated", "needs_review", "urgent_review"} :
                    args.flags[k] # Missing /\ args.flags[k][c]}
                \cup (IF args.flags[k] = Missing THEN {"errors"} ELSE {})
        IN  /\ report.total_providers = N
            /\ report.auto_updated >= 0
            /\ report.needs_review >= 0
            /\ report.urgent >= 0
            /\ report.errors >= 0
            /\ report.auto_updated + report.needs_review + report.urgent
                   + report.errors = N
            /\ report.validated
                   = report.auto_updated + report.needs_review + report.urgent
            /\ \A k \in 1..N : Cardinality(CountedIn(k)) = 1

(* C20: process_validation_result takes one branch per result, auto_updated *)
(* first: an auto-updated result gets the update and no ticket or alert     *)
(* even when urgent_review is true too; otherwise an urgent result gets one *)
(* HIGH ticket and one alert; otherwise one MEDIUM ticket and no alert.     *)
C20_RoutingPrecedence ==
    pcFn \in {"processed", "return"} =>
        \A k \in DOMAIN ret.routed :
            LET result == args.flags[k]
                did == ret.routed[k]
            IN  IF result.auto_updated
                THEN /\ did.updates = 1
                     /\ did.tickets = <<>>
                     /\ did.notifications = 0
                ELSE IF result.urgent_review
                THEN /\ did.updates = 0
                     /\ did.tickets = <<"high">>
                     /\ did.notifications = 1
                ELSE /\ did.updates = 0
                     /\ did.tickets = <<"medium">>
                     /\ did.notifications = 0

(* A result with auto_updated and urgent_review both true is auto-updated   *)
(* with no ticket, next to an urgent one and one for review.                *)
C20_Witness ==
    /\ pcFn = "return"
    /\ Len(args.flags) = 3
    /\ args.flags[1] = [auto_updated |-> TRUE, urgent_review |-> TRUE,
                        needs_review |-> FALSE]
    /\ args.flags[2] = [auto_updated |-> FALSE, urgent_review |-> TRUE,
                        needs_review |-> FALSE]
    /\ args.flags[3] = [auto_updated |-> FALSE, urgent_review |-> FALSE,
                        needs_review |-> TRUE]
    /\ ret.routed[1].tickets = <<>>
    /\ ret.routed[2].tickets = <<"high">>
    /\ ret.routed[3].tickets = <<"medium">>

-----------------------------------------------------------------------------
(* Properties of concurrent calls, checked under SpecConcurrent *)

Running(c) == calls[c].at \notin {"off", "returned"}

(* C30: for any interleaving of run_full_validation calls on the singleton, *)
(* get_pipeline_status reports is_running = true whenever at least one call *)
(* has started and not yet returned, and once every call has returned       *)
(* is_running is false and current_stage is None.                           *)
C30_RunningWhileAnyCall ==
    /\ (\E c \in Calls : Running(c)) => get_pipeline_status.is_running
    /\ (\A c \in Calls : calls[c].at = "returned") =>
           /\ ~get_pipeline_status.is_running
           /\ get_pipeline_status.current_stage = "None"

-----------------------------------------------------------------------------
(* Properties of run_full_validation, checked under Spec *)

(* C2: when assess_provider raises for one record, the run returns results  *)
(* for all records, the failing one with status ERROR, and a report whose   *)
(* counts account for every record.                                         *)
C2_ScoringFailureIsolated ==
    (pc = "returned" /\ escaped_by.what = "assess_provider") =>
        LET vr == results.validation_results
        IN  /\ Len(vr.keys) = NumProviders
            /\ {id \in DOMAIN vr.val : vr.val[id].status = "error"}
                   = {escaped_by.provider}
            /\ results.report # None
            /\ results.report.total_providers = NumProviders
            /\ results.report.auto_updated + results.report.needs_review
                   + results.report.urgent + results.report.errors = NumProviders

(* Whether the output of a completed stage is in the returned results: the  *)
(* source outcomes of data_validation are returned inside the validation    *)
(* results, the other outputs under their own keys.                         *)
OutputReturned(stage) ==
    CASE stage = "data_validation" ->
            \A id \in 1..NumProviders :
                /\ DictHas(results.validation_results, id)
                /\ results.validation_results.val[id].source_validations
                       = DictValues(completed[stage].val[id])
      [] stage = "enrichment" -> results.enrichments = completed[stage]
      [] stage = "quality_assessment" -> results.validation_results = completed[stage]
      [] stage = "directory_management" -> results.actions = completed[stage]
      [] stage = "reporting" -> results.report = completed[stage]

(* C3: when an exception escapes a stage, the returned results name that    *)
(* stage in an error entry, no later stage was started, and the output of   *)
(* every stage that had completed is returned.                              *)
C3_StageFailurePartialResults ==
    (pc = "returned" /\ escaped_from # "None") =>
        /\ Len(results.errors) = 1
        /\ results.errors[1].stage = escaped_from
        /\ results.errors[1].error = escaped_by.what
        /\ results.errors[1].timestamp
        /\ started[Len(started)] = escaped_from
        /\ \A stage \in DOMAIN completed : OutputReturned(stage)

(* C4: run_full_validation never ends by raising to its caller. *)
C4_NeverPropagates == pc # "raised"

(* The share of the progress scale of each stage. *)
Partition(stage) ==
    CASE stage = "data_validation" -> <<0, 25>>
      [] stage = "enrichment" -> <<25, 50>>
      [] stage = "quality_assessment" -> <<50, 75>>
      [] stage = "directory_management" -> <<75, 95>>
      [] stage = "reporting" -> <<95, 100>>

Within(p, lo, hi) == lo * p.d <= p.n /\ p.n <= hi * p.d

(* C18: within a run the percentages reported never decrease and lie in     *)
(* [0,100]; they start at 0, every stage reports inside its own partition   *)
(* (0-25, 25-50, 50-75, 75-95, 95-100), and a run without error ends with   *)
(* a report of exactly 100.                                                 *)
C18_ProgressMonotone ==
    /\ [](/\ Within(progress, 0, 100)
          /\ (pc = "validate_batch" /\ loop.i = 0) => progress = RatInt(0)
          /\ current_stage # "None" =>
                 Within(progress, Partition(current_stage)[1],
                        Partition(current_stage)[2])
          /\ (pc = "returned" /\ escaped_from = "None") => progress = RatInt(100))
    /\ [][RatGE(progress', progress)]_vars

(* Half of the providers processed by the directory stage: 85 is reported   *)
(* to the caller's callback.                                                *)
C18_Witness ==
    /\ has_callback
    /\ current_stage = "directory_management"
    /\ pc = "process_batch"
    /\ RatLT(RatInt(75), progress)
    /\ RatLT(progress, RatInt(95))

(* The stages of a run, in order, under the run's configuration. *)
StageOrder ==
    IF config.enable_enrichment
    THEN <<"data_validation", "enrichment", "quality_assessment",
           "directory_management", "reporting">>
    ELSE <<"data_validation", "quality_assessment", "directory_management",
           "reporting">>

(* C19: the stages start in the one fixed order, none twice, enrichment     *)
(* only if enabled; scoring starts only when the source outcomes of every   *)
(* record are gathered, and the report is built only when every record is   *)
(* scored.                                                                  *)
C19_StageOrder ==
    /\ Len(started) <= Len(StageOrder)
    /\ \A k \in 1..Len(started) : started[k] = StageOrder[k]
    /\ (\E k \in 1..Len(started) : started[k] = "quality_assessment") =>
           /\ "data_validation" \in DOMAIN completed
           /\ source_validations = completed["data_validation"]
           /\ source_validations.keys = providers
    /\ (\E k \in 1..Len(started) : started[k] = "reporting") =>
           /\ "quality_assessment" \in DOMAIN completed
           /\ results.validation_results.keys = providers
    /\ pc = "generate_report" => results.report = None

(* A run with enrichment disabled went through its four stages. *)
C19_Witness ==
    /\ pc = "returned"
    /\ escaped_from = "None"
    /\ ~config.enable_enrichment
    /\ started = <<"data_validation", "quality_assessment", "directory_management",
                   "reporting">>
    /\ results.report # None

=============================================================================
